---- MODULE Spec2Model ----
(***************************************************************************)
(* coral-mesh/discovery: the Cloudflare Workers discovery service.         *)
(*                                                                         *)
(* The model covers the RPC gateway (src/src/index.ts and the handlers),   *)
(* the ColonyRegistry Durable Object (src/src/registry.ts) and the token   *)
(* issuance core (src/src/crypto.ts, src/src/handlers/bootstrap.ts).       *)
(*                                                                         *)
(* Conventions.                                                            *)
(*  - An optional JavaScript value (undefined / null / absent property) is *)
(*    a set: {} when absent, {v} when present.                             *)
(*  - Identifiers, public keys and host:port endpoints are strings; IP     *)
(*    addresses are sequences of one-character strings, because the code   *)
(*    inspects their text (startsWith, a regular expression).              *)
(*  - Time is Date.now() in milliseconds.                                  *)
(***************************************************************************)
EXTENDS Integers, Sequences, FiniteSets, TLC

VARIABLES
  now,            \* Date.now()
  config,         \* parseConfig(env)
  metricsBound,   \* whether env.DISCOVERY_METRICS is bound
  colonies,       \* per partition: the colonies table, mesh_id -> row
  agents,         \* per partition: the agents table, agent_id -> row
  colonyCache,    \* per partition: ColonyRegistry.colonyCache
  agentCache,     \* per partition: ColonyRegistry.agentCache
  alarmAt,        \* per partition: ctx.storage.getAlarm()
  live,           \* the partitions whose object is constructed in memory
  cleanupSnap,    \* metrics partition storage, keys cleanup:<origin>
  signingKeyEnv,  \* env.DISCOVERY_SIGNING_KEY and env.DISCOVERY_SIGNING_KEY_DEV
  cachedKeys,     \* crypto.ts cachedKeys
  cachedKeySource,\* crypto.ts cachedKeySource
  thrown,         \* an error travelling from where it was thrown to the wire
  inFlight,       \* RegisterColony requests a partition has begun to handle
  metrics,        \* the DiscoveryMetrics object: its fields and count: keys
  trackLog,       \* history: the track calls made, per operation and time
  lastReg,        \* history: the latest successful registration per key
  firstPubkey,    \* history: the pubkey of the first successful RegisterColony
  last            \* the HTTP exchange performed by the step just taken

vars == <<now, config, metricsBound, colonies, agents, colonyCache, agentCache,
          alarmAt, live, cleanupSnap, signingKeyEnv, cachedKeys,
          cachedKeySource, thrown, inFlight, metrics, trackLog, lastReg,
          firstPubkey, last>>

registryVars == <<colonies, agents, colonyCache, agentCache, alarmAt, live,
                  cleanupSnap, lastReg, firstPubkey>>
keyVars == <<signingKeyEnv, cachedKeys, cachedKeySource>>
metricsVars == <<metrics, trackLog>>

----------------------------------------------------------------------------
(* Optional values and JavaScript truthiness.                              *)

None == {}
Some(v) == {v}
Val(o) == CHOOSE v \in o : TRUE

\* !s for an optional string: undefined, null and "" are falsy.
TruthyStr(o) == o # None /\ o # Some("")
\* !n for an optional number: undefined, null and 0 are falsy.
TruthyNum(o) == o # None /\ o # Some(0)
\* !t for optional text held as a character sequence.
TruthyText(o) == o # None /\ o # Some(<<>>)
\* !x for an optional object or array: only undefined and null are falsy.
TruthyObj(o) == o # None

\* a || null and a || undefined
StrOrNull(o) == IF TruthyStr(o) THEN o ELSE None
NumOrNull(o) == IF TruthyNum(o) THEN o ELSE None
TextOrNull(o) == IF TruthyText(o) THEN o ELSE None

\* An empty table or Map, and the usual updates of one.
EmptyMap == [k \in {} |-> {}]
MapPut(m, k, v) == [x \in DOMAIN m \cup {k} |-> IF x = k THEN v ELSE m[x]]
MapDel(m, k) == [x \in DOMAIN m \ {k} |-> m[x]]
MapGet(m, k) == IF k \in DOMAIN m THEN Some(m[k]) ELSE None

Max(a, b) == IF a >= b THEN a ELSE b

----------------------------------------------------------------------------
(* Bounds of the model.                                                    *)

\* Time advances in steps of TickMs, at most MaxTicks times.
TickMs == 500
MaxTicks == 4
\* Date.now() when the model starts.
StartMs == 10000
\* Error codes are drawn from 0..MaxCode; the table of codes ends at 16.
MaxCode == 17
\* The RegisterColony requests that may be in flight at once.
MaxInFlight == 2
\* The clock ticks of the specification of two meshes.
MeshTicks == 3

----------------------------------------------------------------------------
(* Text of IP addresses.                                                   *)

StartsWith(s, prefix) ==
  Len(s) >= Len(prefix) /\ SubSeq(s, 1, Len(prefix)) = prefix

Digits == {"0", "1", "2", "3", "4", "5", "6", "7", "8", "9"}

\* /^172\.(1[6-9]|2\d|3[01])\./.test(ip)
Matches172(ip) ==
  /\ Len(ip) >= 7
  /\ SubSeq(ip, 1, 4) = <<"1", "7", "2", ".">>
  /\ \/ ip[5] = "1" /\ ip[6] \in {"6", "7", "8", "9"}
     \/ ip[5] = "2" /\ ip[6] \in Digits
     \/ ip[5] = "3" /\ ip[6] \in {"0", "1"}
  /\ ip[7] = "."

\* registry.ts isPrivateIP: a test on the text of the address.
isPrivateIP(ip) ==
  IF ip = <<>> THEN FALSE
  ELSE \/ StartsWith(ip, <<"1", "0", ".">>)
       \/ StartsWith(ip, <<"1", "9", "2", ".", "1", "6", "8", ".">>)
       \/ Matches172(ip)
       \/ StartsWith(ip, <<"1", "2", "7", ".">>)
       \/ ip = <<":", ":", "1">>
       \/ StartsWith(ip, <<"f", "c">>)
       \/ StartsWith(ip, <<"f", "d">>)

\* The addresses the model draws from.
IP_1_2_3_4 == <<"1", ".", "2", ".", "3", ".", "4">>
IP_5_6_7_8 == <<"5", ".", "6", ".", "7", ".", "8">>
IP_10_0_0_1 == <<"1", "0", ".", "0", ".", "0", ".", "1">>
IP_fd00_1 == <<"f", "d", "0", "0", ":", ":", "1">>
IP_FD00_1 == <<"F", "D", "0", "0", ":", ":", "1">>

----------------------------------------------------------------------------
(* Connect errors (registry.ts ConnectErrorCode, ConnectError).            *)

InvalidArgument == 3
NotFound == 5
AlreadyExists == 6
Unimplemented == 12
Internal == 13

\* new ConnectError(message, code); code is whatever the caller passes.
ConnectError(message, code) ==
  [name |-> "ConnectError", message |-> message, code |-> code]
\* Any other exception.
PlainError(message) == [name |-> "Error", message |-> message, code |-> None]

\* index.ts connectCodeToString: codes[code] || "unknown"
CodeStrings ==
  <<"canceled", "unknown", "invalid_argument", "deadline_exceeded",
    "not_found", "already_exists", "permission_denied", "resource_exhausted",
    "failed_precondition", "aborted", "out_of_range", "unimplemented",
    "internal", "unavailable", "data_loss", "unauthenticated">>

connectCodeToString(code) ==
  LET entry == IF code = None THEN None
               ELSE IF Val(code) = 0 THEN Some("ok")
               ELSE IF Val(code) \in 1..16 THEN Some(CodeStrings[Val(code)])
               ELSE None
  IN IF TruthyStr(entry) THEN Val(entry) ELSE "unknown"

\* index.ts connectCodeToHTTPStatus: statusMap[code] || 500
StatusMap ==
  <<408, 500, 400, 408, 404, 409, 403, 429, 400, 409, 400, 501, 500, 503,
    500, 401>>

connectCodeToHTTPStatus(code) ==
  LET entry == IF code = None THEN None
               ELSE IF Val(code) = 0 THEN Some(200)
               ELSE IF Val(code) \in 1..16 THEN Some(StatusMap[Val(code)])
               ELSE None
  IN IF TruthyNum(entry) THEN Val(entry) ELSE 500

\* index.ts createConnectErrorResponse
createConnectErrorResponse(err) ==
  [status |-> connectCodeToHTTPStatus(err.code),
   body |-> [code |-> connectCodeToString(err.code), message |-> err.message]]

\* index.ts createConnectResponse
createConnectResponse(data) == [status |-> 200, body |-> data]

\* index.ts fetch, the outer catch: an exception that is no ConnectError
\* becomes a plain-text 500.
WorkerCatch(err) ==
  IF err.name = "ConnectError" THEN createConnectErrorResponse(err)
  ELSE [status |-> 500, body |-> [text |-> "Internal Server Error"]]

\* registry.ts ColonyRegistry.fetch, the catch: what the partition answers
\* when a handler throws.
RegistryCatch(err) ==
  IF err.name = "ConnectError"
  THEN [ok |-> FALSE, status |-> 400,
        json |-> [error |-> Some(err.message), code |-> err.code]]
  ELSE [ok |-> FALSE, status |-> 500,
        json |-> [error |-> Some("Internal error"), code |-> None]]

\* handlers: if (!response.ok) throw new ConnectError(error.error, error.code)
HandlerRelayAsInternal(response) ==
  ConnectError(IF response.json.error = None THEN "undefined"
               ELSE Val(response.json.error),
               Some(Internal))

HandlerRelay(response) ==
  ConnectError(IF response.json.error = None THEN "undefined"
               ELSE Val(response.json.error),
               response.json.code)

----------------------------------------------------------------------------
(* Wire encodings.                                                         *)

\* JSON.stringify of a value kept in a TEXT column, and JSON.parse of it.
\* The text of a JSON array or object is never the empty string, so a
\* stored text is truthy whatever it encodes.
JSONstringify(v) == [text |-> v]
JSONparse(t) == t.text

\* Math.floor(ms / 1000)
FloorSeconds(ms) == ms \div 1000

\* new Date(n).toISOString(): the RFC 3339 text, held as the instant (in
\* milliseconds since the epoch) that it denotes. The Date constructor reads
\* its numeric argument as milliseconds.
DateToISOString(n) == [rfc3339ms |-> n]

----------------------------------------------------------------------------
(* ColonyRegistry (registry.ts): one Durable Object per partition name.    *)

\* env.COLONY_REGISTRY.idFromName(name): a missing name is coerced to text.
\* idFromName, had it given every name the same object.
idFromNameShared(name) == "m1"

idFromName(name) == IF name = None THEN "undefined" ELSE Val(name)

TTLMs == config.defaultTTLSeconds * 1000

\* The constructor: runs before the first request or alarm served by an
\* object that is not in memory; schedules the alarm if none is pending.
ConstructedAlarmNever(p) == alarmAt[p]

ConstructedAlarmAlways(p) ==
  IF p \in live THEN alarmAt[p] ELSE Some(now + config.cleanupIntervalMs)

ConstructedAlarm(p) ==
  IF p \in live \/ alarmAt[p] # None THEN alarmAt[p]
  ELSE Some(now + config.cleanupIntervalMs)

\* The observed endpoint that a register handler stores and returns.
DetermineObserved(body) ==
  IF TruthyText(body.observedIP)
     /\ (\/ ~TruthyObj(body.observedEndpoint)
         \/ isPrivateIP(Val(body.observedEndpoint).ip))
  THEN Some([ip |-> Val(body.observedIP),
             port |-> IF TruthyObj(body.observedEndpoint)
                      THEN Val(body.observedEndpoint).port ELSE 0,
             protocol |-> "udp"])
  ELSE body.observedEndpoint

\* At least one endpoint or observed_endpoint.
HasEndpointOrObservedIP(body) ==
  ~( /\ (~TruthyObj(body.endpoints) \/ Len(Val(body.endpoints)) = 0)
     /\ ~TruthyObj(body.observedEndpoint)
     /\ ~TruthyText(body.observedIP) )

HasEndpoint(body) ==
  ~( /\ (~TruthyObj(body.endpoints) \/ Len(Val(body.endpoints)) = 0)
     /\ ~TruthyObj(body.observedEndpoint) )

\* SELECT pubkey FROM colonies WHERE mesh_id = ? LIMIT 1
ExistingPubkeyUnexpired(p, meshId) ==
  IF meshId \in DOMAIN colonies[p] /\ colonies[p][meshId].expires_at >= now
  THEN Some(colonies[p][meshId].pubkey)
  ELSE None

ExistingPubkey(p, meshId) ==
  IF meshId \in DOMAIN colonies[p] THEN Some(colonies[p][meshId].pubkey)
  ELSE None

\* COALESCE((SELECT created_at FROM <table> WHERE <key> = ?), ?)
CreatedAtFresh(table, key) == now

CreatedAt(table, key) ==
  IF key \in DOMAIN table THEN table[key].created_at ELSE now

\* this.colonyCache.delete(key) / this.agentCache.delete(key)
InvalidateKept(cache, key) == cache

Invalidate(cache, key) == MapDel(cache, key)

\* The row written by INSERT OR REPLACE INTO colonies.
ColonyRow(p, body) ==
  LET meshId == Val(body.meshId) IN
  [mesh_id |-> meshId,
   pubkey |-> Val(body.pubkey),
   endpoints |-> JSONstringify(IF TruthyObj(body.endpoints)
                               THEN Val(body.endpoints) ELSE <<>>),
   mesh_ipv4 |-> StrOrNull(body.meshIpv4),
   mesh_ipv6 |-> StrOrNull(body.meshIpv6),
   connect_port |-> NumOrNull(body.connectPort),
   public_port |-> NumOrNull(body.publicPort),
   metadata |-> IF TruthyObj(body.metadata)
                THEN Some(JSONstringify(Val(body.metadata))) ELSE None,
   observed_endpoint |-> IF TruthyObj(DetermineObserved(body))
                         THEN Some(JSONstringify(Val(DetermineObserved(body))))
                         ELSE None,
   public_endpoint |-> IF TruthyObj(body.publicEndpoint)
                       THEN Some(JSONstringify(Val(body.publicEndpoint)))
                       ELSE None,
   nat_hint |-> 0,
   created_at |-> CreatedAt(colonies[p], meshId),
   updated_at |-> now,
   expires_at |-> now + TTLMs]

\* The body of the partition's answer to a successful register.
RegisterReply(body) ==
  [success |-> TRUE,
   ttl |-> config.defaultTTLSeconds,
   expiresAt |-> FloorSeconds(now + TTLMs),
   observedEndpoint |-> DetermineObserved(body)]

\* handleRegisterColony: what the handler does on partition p, as the
\* exception it throws or the row it writes and the reply it gives.
RegistryRegisterColony(p, body) ==
  IF ~TruthyStr(body.meshId)
  THEN [throws |-> Some(ConnectError("mesh_id is required", Some(InvalidArgument)))]
  ELSE IF ~TruthyStr(body.pubkey)
  THEN [throws |-> Some(ConnectError("pubkey is required", Some(InvalidArgument)))]
  ELSE IF ~HasEndpoint(body)
  THEN [throws |-> Some(ConnectError(
          "at least one endpoint or observed_endpoint is required",
          Some(InvalidArgument)))]
  ELSE IF /\ ExistingPubkey(p, Val(body.meshId)) # None
          /\ Val(ExistingPubkey(p, Val(body.meshId))) # Val(body.pubkey)
  THEN [throws |-> Some(ConnectError(
          "mesh_id already registered with different pubkey",
          Some(AlreadyExists)))]
  ELSE [throws |-> None, row |-> ColonyRow(p, body), json |-> RegisterReply(body)]

\* The response that handleLookupColony builds from a row.
ColonyResponse(row) ==
  [meshId |-> row.mesh_id,
   pubkey |-> row.pubkey,
   endpoints |-> JSONparse(row.endpoints),
   meshIpv4 |-> StrOrNull(row.mesh_ipv4),
   meshIpv6 |-> StrOrNull(row.mesh_ipv6),
   connectPort |-> NumOrNull(row.connect_port),
   publicPort |-> NumOrNull(row.public_port),
   metadata |-> IF row.metadata # None THEN Some(JSONparse(Val(row.metadata)))
                ELSE None,
   lastSeen |-> FloorSeconds(row.updated_at),
   observedEndpoints |-> IF row.observed_endpoint # None
                         THEN <<JSONparse(Val(row.observed_endpoint))>>
                         ELSE <<>>,
   nat |-> row.nat_hint,
   publicEndpoint |-> IF row.public_endpoint # None
                      THEN Some(JSONparse(Val(row.public_endpoint))) ELSE None]

\* SELECT ... FROM colonies WHERE mesh_id = ? AND expires_at >= ? LIMIT 1
SelectAny(table, key) == IF key \in DOMAIN table THEN Some(table[key]) ELSE None

SelectLive(table, key) ==
  IF key \in DOMAIN table /\ table[key].expires_at >= now
  THEN Some(table[key]) ELSE None

\* The cache probe of both lookup handlers: cached && cached.expiresAt >= now
CacheHitAny(cache, key) == IF key \in DOMAIN cache THEN Some(cache[key]) ELSE None

CacheHit(cache, key) ==
  IF key \in DOMAIN cache /\ cache[key].expiresAt >= now
  THEN Some(cache[key]) ELSE None

\* handleLookupColony on partition p: the exception, or the reply and the
\* cache entry it leaves behind (none when it answered from the cache).
RegistryLookupColony(p, body) ==
  IF ~TruthyStr(body.meshId)
  THEN [throws |-> Some(ConnectError("mesh_id is required", Some(InvalidArgument)))]
  ELSE LET key == Val(body.meshId)
           cached == CacheHit(colonyCache[p], key)
           rows == SelectLive(colonies[p], key)
       IN IF cached # None
          THEN [throws |-> None, json |-> Val(cached).data, caches |-> None]
          ELSE IF rows = None
          THEN [throws |-> Some(ConnectError("colony not found", Some(NotFound)))]
          ELSE [throws |-> None, json |-> ColonyResponse(Val(rows)),
                caches |-> Some([data |-> ColonyResponse(Val(rows)),
                                 expiresAt |-> Val(rows).expires_at])]

\* The row written by INSERT OR REPLACE INTO agents.
AgentRow(p, body) ==
  LET agentId == Val(body.agentId) IN
  [agent_id |-> agentId,
   mesh_id |-> Val(body.meshId),
   pubkey |-> Val(body.pubkey),
   endpoints |-> JSONstringify(IF TruthyObj(body.endpoints)
                               THEN Val(body.endpoints) ELSE <<>>),
   observed_endpoint |-> IF TruthyObj(DetermineObserved(body))
                         THEN Some(JSONstringify(Val(DetermineObserved(body))))
                         ELSE None,
   metadata |-> IF TruthyObj(body.metadata)
                THEN Some(JSONstringify(Val(body.metadata))) ELSE None,
   created_at |-> CreatedAt(agents[p], agentId),
   updated_at |-> now,
   expires_at |-> now + TTLMs]

\* handleRegisterAgent, had it the split-brain check of handleRegisterColony.
RegistryRegisterAgentChecked(p, body) ==
  IF ~TruthyStr(body.agentId)
  THEN [throws |-> Some(ConnectError("agent_id is required", Some(InvalidArgument)))]
  ELSE IF ~TruthyStr(body.meshId)
  THEN [throws |-> Some(ConnectError("mesh_id is required", Some(InvalidArgument)))]
  ELSE IF ~TruthyStr(body.pubkey)
  THEN [throws |-> Some(ConnectError("pubkey is required", Some(InvalidArgument)))]
  ELSE IF ~HasEndpoint(body)
  THEN [throws |-> Some(ConnectError(
          "at least one endpoint or observed_endpoint is required",
          Some(InvalidArgument)))]
  ELSE IF /\ Val(body.agentId) \in DOMAIN agents[p]
          /\ agents[p][Val(body.agentId)].pubkey # Val(body.pubkey)
  THEN [throws |-> Some(ConnectError(
          "agent_id already registered with different pubkey",
          Some(AlreadyExists)))]
  ELSE [throws |-> None, row |-> AgentRow(p, body), json |-> RegisterReply(body)]

\* handleRegisterAgent on partition p.
RegistryRegisterAgent(p, body) ==
  IF ~TruthyStr(body.agentId)
  THEN [throws |-> Some(ConnectError("agent_id is required", Some(InvalidArgument)))]
  ELSE IF ~TruthyStr(body.meshId)
  THEN [throws |-> Some(ConnectError("mesh_id is required", Some(InvalidArgument)))]
  ELSE IF ~TruthyStr(body.pubkey)
  THEN [throws |-> Some(ConnectError("pubkey is required", Some(InvalidArgument)))]
  ELSE IF ~HasEndpoint(body)
  THEN [throws |-> Some(ConnectError(
          "at least one endpoint or observed_endpoint is required",
          Some(InvalidArgument)))]
  ELSE [throws |-> None, row |-> AgentRow(p, body), json |-> RegisterReply(body)]

\* The response that handleLookupAgent builds from a row.
AgentResponse(row) ==
  [agentId |-> row.agent_id,
   meshId |-> row.mesh_id,
   pubkey |-> row.pubkey,
   endpoints |-> JSONparse(row.endpoints),
   observedEndpoints |-> IF row.observed_endpoint # None
                         THEN <<JSONparse(Val(row.observed_endpoint))>>
                         ELSE <<>>,
   metadata |-> IF row.metadata # None THEN Some(JSONparse(Val(row.metadata)))
                ELSE None,
   lastSeen |-> FloorSeconds(row.updated_at)]

\* handleLookupAgent on partition p.
RegistryLookupAgent(p, body) ==
  IF ~TruthyStr(body.agentId)
  THEN [throws |-> Some(ConnectError("agent_id is required", Some(InvalidArgument)))]
  ELSE LET key == Val(body.agentId)
           cached == CacheHit(agentCache[p], key)
           rows == SelectLive(agents[p], key)
       IN IF cached # None
          THEN [throws |-> None, json |-> Val(cached).data, caches |-> None]
          ELSE IF rows = None
          THEN [throws |-> Some(ConnectError("agent not found", Some(NotFound)))]
          ELSE [throws |-> None, json |-> AgentResponse(Val(rows)),
                caches |-> Some([data |-> AgentResponse(Val(rows)),
                                 expiresAt |-> Val(rows).expires_at])]

\* DELETE FROM <table> WHERE expires_at <= ?
ExpiredAtOrBefore(table) ==
  {k \in DOMAIN table : table[k].expires_at <= now}

\* DELETE FROM <table> WHERE expires_at < ?, the bound given in seconds.
ExpiredInSeconds(table) ==
  {k \in DOMAIN table : table[k].expires_at < FloorSeconds(now)}

\* DELETE FROM <table> WHERE expires_at < ?
Expired(table) == {k \in DOMAIN table : table[k].expires_at < now}
DeleteExpired(table) == [k \in DOMAIN table \ Expired(table) |-> table[k]]

----------------------------------------------------------------------------
(* The gateway's handlers (handlers/register.ts, handlers/lookup.ts).      *)

\* JSON.stringify({...request, observedIP: clientIP})
WithObservedIP(request, clientIP) ==
  [f \in DOMAIN request \cup {"observedIP"} |->
     IF f = "observedIP" THEN clientIP ELSE request[f]]

\* index.ts fetch: request.headers.get("CF-Connecting-IP") || undefined
ClientIP(header) == TextOrNull(header)

\* handleRegisterColony / handleRegisterAgent: the value returned to the
\* dispatcher for a partition reply.
GatewayRegisterResult(json) ==
  [success |-> json.success,
   ttl |-> json.ttl,
   expiresAt |-> DateToISOString(json.expiresAt),
   observedEndpoint |-> json.observedEndpoint]

\* result.lastSeen ? new Date(result.lastSeen).toISOString() : undefined
GatewayLastSeen(lastSeen) ==
  IF TruthyNum(Some(lastSeen)) THEN Some(DateToISOString(lastSeen)) ELSE None

\* handleLookupColony: the value returned to the dispatcher.
GatewayColonyResult(json) == [json EXCEPT !.lastSeen = GatewayLastSeen(@)]

\* handleLookupAgent: the value returned to the dispatcher.
GatewayAgentResult(json) == [json EXCEPT !.lastSeen = GatewayLastSeen(@)]

\* What the client receives when the partition's handler threw: the
\* partition's catch, the handler's relay and the dispatcher's catch.
RelayedError(err) ==
  createConnectErrorResponse(HandlerRelay(RegistryCatch(err)))

\* The exchange recorded for the step just taken.
Exchange(rpc, p, request, clientIP, prior, response) ==
  [rpc |-> rpc, partition |-> p, request |-> request, clientIP |-> clientIP,
   prior |-> prior, status |-> response.status, body |-> response.body]

NoExchange == [rpc |-> "none"]

----------------------------------------------------------------------------
(* Signing keys and tokens (crypto.ts, handlers/bootstrap.ts).             *)

\* The text of a signing-key variable of the environment. A well-formed one
\* is the JSON of {id, privateKey}, privateKey being the base64 of `bytes`
\* bytes: the seed and, in a 64-byte key, the public key behind it.
KeyText(kind, id, seed, bytes) ==
  [kind |-> kind, id |-> id, seed |-> seed, bytes |-> bytes]
EmptyText == KeyText("empty", "", "", 0)
GarbledText == KeyText("garbled", "", "", 0)
SigningKeyText(id, seed, bytes) == KeyText("key", id, seed, bytes)

\* !v for an optional variable of the environment: undefined and "" are
\* falsy.
TruthyVar(o) == o # None /\ Val(o) # EmptyText

\* The Ed25519 public key that belongs to a seed.
PublicKeyOf(seed) == [publicKeyOf |-> seed]

\* crypto.ts getSigningKeys: the module's cache after the call.
getSigningKeys(env, cache) ==
  LET keySource == IF TruthyVar(env.DISCOVERY_SIGNING_KEY)
                   THEN Val(env.DISCOVERY_SIGNING_KEY) ELSE EmptyText
  IN IF cache.keys # None /\ cache.source = Some(keySource) THEN cache
     ELSE [keys |-> Some([currentKey |-> None, previousKeys |-> <<>>]),
           source |-> Some(keySource)]

\* ensureKeysLoaded, had it taken a bare 32-byte seed for a key.
ensureKeysLoadedFromSeed(env, cache) ==
  LET got == getSigningKeys(env, cache)
      keys == Val(got.keys)
      text == Val(env.DISCOVERY_SIGNING_KEY)
  IN IF keys.currentKey # None THEN got
     ELSE IF ~TruthyVar(env.DISCOVERY_SIGNING_KEY) THEN got
     ELSE IF text.kind # "key" THEN got
     ELSE IF text.bytes # 64 /\ text.bytes # 32 THEN got
     ELSE [got EXCEPT !.keys =
             Some([keys EXCEPT !.currentKey =
                     Some([id |-> text.id,
                           privateKey |-> text.seed,
                           publicKeyBytes |-> PublicKeyOf(text.seed)])])]

\* crypto.ts ensureKeysLoaded: the module's cache after the call. A text
\* that does not parse, a key of another length than 64 bytes and a bare
\* 32-byte seed all leave currentKey null.
ensureKeysLoaded(env, cache) ==
  LET got == getSigningKeys(env, cache)
      keys == Val(got.keys)
      text == Val(env.DISCOVERY_SIGNING_KEY)
  IN IF keys.currentKey # None THEN got
     ELSE IF ~TruthyVar(env.DISCOVERY_SIGNING_KEY) THEN got
     ELSE IF text.kind # "key" THEN got
     ELSE IF text.bytes # 64 /\ text.bytes # 32 THEN got
     ELSE IF text.bytes # 64 THEN got
     ELSE [got EXCEPT !.keys =
             Some([keys EXCEPT !.currentKey =
                     Some([id |-> text.id,
                           privateKey |-> text.seed,
                           publicKeyBytes |-> PublicKeyOf(text.seed)])])]

\* crypto.ts createJWT. loadCryptoModule always throws, so either setting of
\* USE_WASM_CRYPTO ends in the Web Crypto path. jti is crypto.randomUUID().
createJWT(key, request, ttlSeconds, jti) ==
  LET iat == FloorSeconds(now)
      expiresAt == iat + ttlSeconds
      header == [alg |-> "EdDSA", typ |-> "JWT", kid |-> key.id]
      claims == [jti |-> jti, iss |-> "coral-discovery",
                 aud |-> <<"coral-colony">>, iat |-> iat, exp |-> expiresAt,
                 reef_id |-> Val(request.reefId),
                 colony_id |-> Val(request.colonyId),
                 agent_id |-> Val(request.agentId),
                 intent |-> Val(request.intent)]
  IN [token |-> [header |-> header, claims |-> claims,
                 signature |-> [signedWith |-> key.privateKey]],
      expiresAt |-> expiresAt]

\* handlers/bootstrap.ts handleCreateBootstrapToken: the exception or the
\* result, and the module's cache afterwards.
handleCreateBootstrapToken(env, cache, request, jti) ==
  LET loaded == ensureKeysLoaded(env, getSigningKeys(env, cache))
      refuse(message, code, c) ==
        [throws |-> Some(ConnectError(message, Some(code))), cache |-> c]
  IN IF ~TruthyStr(request.reefId)
     THEN refuse("reef_id is required", InvalidArgument, cache)
     ELSE IF ~TruthyStr(request.colonyId)
     THEN refuse("colony_id is required", InvalidArgument, cache)
     ELSE IF ~TruthyStr(request.agentId)
     THEN refuse("agent_id is required", InvalidArgument, cache)
     ELSE IF ~TruthyStr(request.intent)
     THEN refuse("intent is required", InvalidArgument, cache)
     ELSE IF /\ ~TruthyVar(env.DISCOVERY_SIGNING_KEY)
             /\ ~TruthyVar(env.DISCOVERY_SIGNING_KEY_DEV)
     THEN refuse("DISCOVERY_SIGNING_KEY not configured", Internal, cache)
     ELSE IF Val(loaded.keys).currentKey = None
     THEN refuse("No signing key available", Internal, loaded)
     ELSE LET made == createJWT(Val(Val(loaded.keys).currentKey), request, 60, jti)
          IN [throws |-> None, cache |-> loaded,
              result |-> [jwt |-> made.token,
                          expiresAt |-> [bigint |-> made.expiresAt]]]

\* index.ts bigIntReplacer, applied to the token result: a BigInt goes out
\* as its decimal text.
bigIntReplacer(result) ==
  [result EXCEPT !.expiresAt = [decimalText |-> @.bigint]]

\* index.ts handleJWKS
handleJWKS(env) == [status |-> 200, body |-> [keys |-> <<>>]]

----------------------------------------------------------------------------
(* Operations.                                                             *)

PartitionNames == {"m1", "m2", "undefined", ""}

\* The partition's object is brought into memory to serve a request.
Enter(p) ==
  /\ live' = live \cup {p}
  /\ alarmAt' = [alarmAt EXCEPT ![p] = ConstructedAlarm(p)]

\* The gateway's handleRegisterColony around the partition's handler, whose
\* outcome is out: the row is written, the cache entry dropped and the reply
\* converted, or the partition's error is relayed.
ServeRegisterColony(request, header, out) ==
  LET clientIP == ClientIP(header)
      p == idFromName(request.meshId)
      body == WithObservedIP(request, clientIP)
      key == Val(body.meshId)
      prior == IF TruthyStr(body.meshId) THEN MapGet(colonies[p], key) ELSE None
  IN /\ p \in PartitionNames
     /\ Enter(p)
     /\ IF out.throws = None
        THEN /\ colonies' = [colonies EXCEPT ![p] = MapPut(@, key, out.row)]
             /\ colonyCache' = [colonyCache EXCEPT ![p] = Invalidate(@, key)]
             /\ lastReg' = MapPut(lastReg, <<"colony", p, key>>,
                                  [at |-> now, body |-> body, row |-> out.row,
                                   reply |-> out.json,
                                   overCache |-> key \in DOMAIN colonyCache[p]])
             /\ firstPubkey' = IF key \in DOMAIN firstPubkey THEN firstPubkey
                               ELSE MapPut(firstPubkey, key, out.row.pubkey)
             /\ last' = Exchange("RegisterColony", p, request, clientIP, prior,
                          createConnectResponse(GatewayRegisterResult(out.json)))
        ELSE /\ UNCHANGED <<colonies, colonyCache, lastReg, firstPubkey>>
             /\ last' = Exchange("RegisterColony", p, request, clientIP, prior,
                                 RelayedError(Val(out.throws)))
     /\ UNCHANGED <<now, config, metricsBound, agents, agentCache, cleanupSnap,
                    keyVars, thrown, metricsVars>>

\* POST .../RegisterColony, handled without another request of the
\* partition coming in between.
RegisterColony(request, header) ==
  /\ ServeRegisterColony(request, header,
        RegistryRegisterColony(idFromName(request.meshId),
                               WithObservedIP(request, ClientIP(header))))
  /\ UNCHANGED inFlight

\* The places at which the partition's handleRegisterColony awaits and so
\* lets another request of the same partition run: reading the request body.
\* Nothing is awaited between the split-brain SELECT and the upsert.
RegisterAwaitsAfterCheck == {"body", "checked"}

RegisterAwaits == {"body"}

\* POST .../RegisterColony reaches its partition and waits for its body,
\* while the requests of inFlight that are not done are still being handled.
Arrive(id, request) ==
  LET p == idFromName(request.meshId)
  IN /\ id \notin DOMAIN inFlight
     /\ p \in PartitionNames
     /\ Enter(p)
     /\ inFlight' = MapPut(inFlight, id,
          [request |-> request, pc |-> "body",
           found |-> MapGet(colonies[p], Val(request.meshId)),
           among |-> {i \in DOMAIN inFlight : inFlight[i].pc # "done"},
           status |-> 0, code |-> None])
     /\ last' = NoExchange
     /\ UNCHANGED <<now, config, metricsBound, colonies, agents, colonyCache,
                    agentCache, cleanupSnap, lastReg, firstPubkey, keyVars,
                    thrown, metricsVars>>

\* The request id in flight runs from the await it stands at to the next one,
\* or to its response.
Proceed(id) ==
  /\ id \in DOMAIN inFlight
  /\ inFlight[id].pc # "done"
  /\ LET request == inFlight[id].request
         p == idFromName(request.meshId)
         body == WithObservedIP(request, None)
         out == IF inFlight[id].pc = "checked"
                THEN [throws |-> None, row |-> ColonyRow(p, body),
                      json |-> RegisterReply(body)]
                ELSE RegistryRegisterColony(p, body)
     IN IF /\ inFlight[id].pc = "body"
           /\ out.throws = None
           /\ "checked" \in RegisterAwaits
        THEN /\ Enter(p)
             /\ inFlight' = [inFlight EXCEPT ![id].pc = "checked"]
             /\ last' = NoExchange
             /\ UNCHANGED <<now, config, metricsBound, colonies, agents,
                            colonyCache, agentCache, cleanupSnap, lastReg,
                            firstPubkey, keyVars, thrown, metricsVars>>
        ELSE /\ ServeRegisterColony(request, None, out)
             /\ inFlight' = [inFlight EXCEPT
                  ![id].pc = "done",
                  ![id].status = last'.status,
                  ![id].code = IF out.throws = None THEN None
                               ELSE Some(last'.body.code)]

\* POST .../LookupColony
LookupColony(request) ==
  LET p == idFromName(request.meshId)
      out == RegistryLookupColony(p, request)
      key == Val(request.meshId)
      prior == IF TruthyStr(request.meshId) THEN MapGet(colonies[p], key) ELSE None
  IN /\ p \in PartitionNames
     /\ Enter(p)
     /\ IF out.throws = None
        THEN /\ colonyCache' = IF out.caches = None THEN colonyCache
                               ELSE [colonyCache EXCEPT
                                       ![p] = MapPut(@, key, Val(out.caches))]
             /\ last' = Exchange("LookupColony", p, request, None, prior,
                          createConnectResponse(GatewayColonyResult(out.json)))
        ELSE /\ UNCHANGED colonyCache
             /\ last' = Exchange("LookupColony", p, request, None, prior,
                                 RelayedError(Val(out.throws)))
     /\ UNCHANGED <<now, config, metricsBound, colonies, agents, agentCache,
                    cleanupSnap, lastReg, firstPubkey, keyVars, thrown, inFlight, metricsVars>>

\* POST .../RegisterAgent
RegisterAgent(request, header) ==
  LET clientIP == ClientIP(header)
      p == idFromName(request.meshId)
      body == WithObservedIP(request, clientIP)
      out == RegistryRegisterAgent(p, body)
      key == Val(body.agentId)
      prior == IF TruthyStr(body.agentId) THEN MapGet(agents[p], key) ELSE None
  IN /\ p \in PartitionNames
     /\ Enter(p)
     /\ IF out.throws = None
        THEN /\ agents' = [agents EXCEPT ![p] = MapPut(@, key, out.row)]
             /\ agentCache' = [agentCache EXCEPT ![p] = Invalidate(@, key)]
             /\ lastReg' = MapPut(lastReg, <<"agent", p, key>>,
                                  [at |-> now, body |-> body, row |-> out.row,
                                   reply |-> out.json,
                                   overCache |-> key \in DOMAIN agentCache[p]])
             /\ last' = Exchange("RegisterAgent", p, request, clientIP, prior,
                          createConnectResponse(GatewayRegisterResult(out.json)))
        ELSE /\ UNCHANGED <<agents, agentCache, lastReg>>
             /\ last' = Exchange("RegisterAgent", p, request, clientIP, prior,
                                 RelayedError(Val(out.throws)))
     /\ UNCHANGED <<now, config, metricsBound, colonies, colonyCache,
                    cleanupSnap, firstPubkey, keyVars, thrown, inFlight, metricsVars>>

\* handlers/lookup.ts handleLookupAgent, !request.meshId negated: the request
\* names the mesh whose partition is to be asked.
MeshIdGivenUnlessAbsent(request) == request.meshId # None

MeshIdGiven(request) == TruthyStr(request.meshId)

\* POST .../LookupAgent
LookupAgent(request) ==
  IF ~MeshIdGiven(request)
  THEN \* rejected by the gateway's handler: no partition is contacted
       /\ last' = Exchange("LookupAgent", "", request, None, None,
                    createConnectErrorResponse(ConnectError(
                      "mesh_id required for agent lookup in Workers implementation",
                      Some(InvalidArgument))))
       /\ UNCHANGED <<now, config, metricsBound, registryVars, keyVars, thrown, inFlight, metricsVars>>
  ELSE
    LET p == idFromName(request.meshId)
        out == RegistryLookupAgent(p, request)
        key == Val(request.agentId)
        prior == IF TruthyStr(request.agentId) THEN MapGet(agents[p], key) ELSE None
    IN /\ p \in PartitionNames
       /\ Enter(p)
       /\ IF out.throws = None
          THEN /\ agentCache' = IF out.caches = None THEN agentCache
                                ELSE [agentCache EXCEPT
                                        ![p] = MapPut(@, key, Val(out.caches))]
               /\ last' = Exchange("LookupAgent", p, request, None, prior,
                            createConnectResponse(GatewayAgentResult(out.json)))
          ELSE /\ UNCHANGED agentCache
               /\ last' = Exchange("LookupAgent", p, request, None, prior,
                                   RelayedError(Val(out.throws)))
       /\ UNCHANGED <<now, config, metricsBound, colonies, agents, colonyCache,
                      cleanupSnap, lastReg, firstPubkey, keyVars, thrown, inFlight, metricsVars>>

\* POST .../CreateBootstrapToken
CreateBootstrapToken(request, jti) ==
  LET out == handleCreateBootstrapToken(
               signingKeyEnv, [keys |-> cachedKeys, source |-> cachedKeySource],
               request, jti)
  IN /\ cachedKeys' = out.cache.keys
     /\ cachedKeySource' = out.cache.source
     /\ last' = Exchange("CreateBootstrapToken", "", request, None, None,
                  IF out.throws = None
                  THEN createConnectResponse(bigIntReplacer(out.result))
                  ELSE createConnectErrorResponse(Val(out.throws)))
     /\ UNCHANGED <<now, config, metricsBound, registryVars, signingKeyEnv,
                    thrown, inFlight, metricsVars>>

\* GET /.well-known/jwks.json
GetJWKS ==
  /\ last' = Exchange("GetJWKS", "", None, None, None, handleJWKS(signingKeyEnv))
  /\ UNCHANGED <<now, config, metricsBound, registryVars, keyVars, thrown, inFlight, metricsVars>>

\* The runtime starts a fresh isolate: the module-level cache of crypto.ts
\* is back at its initial value.
StartIsolate ==
  /\ cachedKeys # None
  /\ cachedKeys' = None
  /\ cachedKeySource' = None
  /\ last' = NoExchange
  /\ UNCHANGED <<now, config, metricsBound, registryVars, signingKeyEnv,
                 thrown, inFlight, metricsVars>>

\* An exception thrown by a handler of the partition is caught by
\* ColonyRegistry.fetch and answered to the gateway.
PartitionCatches ==
  /\ thrown # None
  /\ Val(thrown).at = "partition"
  /\ thrown' = Some([Val(thrown) EXCEPT !.at = "handler",
                                        !.carried = RegistryCatch(@)])
  /\ last' = NoExchange
  /\ UNCHANGED <<now, config, metricsBound, registryVars, keyVars, inFlight, metricsVars>>

\* The gateway's handler turns the partition's failure reply into an
\* exception of its own.
HandlerThrows ==
  /\ thrown # None
  /\ Val(thrown).at = "handler"
  /\ thrown' = Some([Val(thrown) EXCEPT !.at = "dispatcher",
                                        !.carried = HandlerRelay(@)])
  /\ last' = NoExchange
  /\ UNCHANGED <<now, config, metricsBound, registryVars, keyVars, inFlight, metricsVars>>

\* The exception reaches the catch of handleConnectRequest and, if it is
\* no ConnectError, that of fetch; the response goes out.
DispatcherCatches ==
  /\ thrown # None
  /\ Val(thrown).at = "dispatcher"
  /\ thrown' = Some([Val(thrown) EXCEPT !.at = "wire"])
  /\ last' = [rpc |-> "failed", origin |-> Val(thrown).origin,
              error |-> Val(thrown).error,
              status |-> WorkerCatch(Val(thrown).carried).status,
              body |-> WorkerCatch(Val(thrown).carried).body]
  /\ UNCHANGED <<now, config, metricsBound, registryVars, keyVars, inFlight, metricsVars>>

\* handleReport of the metrics partition: storage.put of cleanup:<doId>, the
\* two counts of the body and the time of the report.
handleReport(storage, doId, body, at) ==
  MapPut(storage, doId, [expiredColonies |-> body.expiredColonies,
                         expiredAgents |-> body.expiredAgents,
                         updatedAt |-> at])

\* What the report of a cleanup to the metrics partition may come to: the
\* metrics partition stores it, it answers an error, or the fetch throws.
ReportOutcomes == {"ok", "error", "throws"}

\* The alarm that alarm() leaves behind. The report is sent inside try/catch
\* and its response is not looked at, so setAlarm runs whatever became of it.
NextAlarmUnlessThrown(outcome) ==
  IF outcome = "throws" THEN None ELSE Some(now + config.cleanupIntervalMs)

NextAlarm(outcome) == Some(now + config.cleanupIntervalMs)

\* alarm() of partition p: delete the expired rows, clear the caches if any
\* row went, report the two counts to the metrics partition if one is bound,
\* and set the next alarm. A run that is observed leaves its record in last.
RunAlarm(p, outcome, observed) ==
  /\ alarmAt[p] # None
  /\ now >= Val(alarmAt[p])
  /\ LET coloniesDeleted == Cardinality(Expired(colonies[p]))
         agentsDeleted == Cardinality(Expired(agents[p]))
     IN /\ colonies' = [colonies EXCEPT ![p] = DeleteExpired(@)]
        /\ agents' = [agents EXCEPT ![p] = DeleteExpired(@)]
        /\ IF coloniesDeleted > 0 \/ agentsDeleted > 0
           THEN /\ colonyCache' = [colonyCache EXCEPT ![p] = EmptyMap]
                /\ agentCache' = [agentCache EXCEPT ![p] = EmptyMap]
           ELSE UNCHANGED <<colonyCache, agentCache>>
        /\ cleanupSnap' =
             IF metricsBound /\ outcome = "ok"
             THEN handleReport(cleanupSnap, p,
                               [expiredColonies |-> coloniesDeleted,
                                expiredAgents |-> agentsDeleted], now)
             ELSE cleanupSnap
        /\ last' = IF observed
                   THEN [rpc |-> "alarm", partition |-> p, report |-> outcome,
                         expiredColonies |-> coloniesDeleted,
                         expiredAgents |-> agentsDeleted]
                   ELSE NoExchange
  /\ live' = live \cup {p}
  /\ alarmAt' = [alarmAt EXCEPT ![p] = NextAlarm(outcome)]
  /\ UNCHANGED <<now, config, metricsBound, lastReg, firstPubkey, keyVars, thrown, inFlight, metricsVars>>

\* The cleanup alarm of partition p, its report delivered or not.
Alarm(p, delivered) == RunAlarm(p, IF delivered THEN "ok" ELSE "throws", FALSE)

\* The cleanup alarm of partition p, observed: the counts it reported and
\* what became of the report.
Cleanup(p, outcome) == RunAlarm(p, outcome, TRUE)

\* The runtime constructs the object of partition p for an event that is to
\* be delivered to it; the event is delivered once the constructor's
\* blockConcurrencyWhile has finished.
Construct(p) ==
  /\ p \notin live
  /\ Enter(p)
  /\ last' = [rpc |-> "construct", partition |-> p, pending |-> alarmAt[p]]
  /\ UNCHANGED <<now, config, metricsBound, colonies, agents, colonyCache,
                 agentCache, cleanupSnap, lastReg, firstPubkey, keyVars,
                 thrown, inFlight, metricsVars>>

\* The runtime drops the in-memory object of partition p; storage stays.
Evict(p) ==
  /\ p \in live
  /\ live' = live \ {p}
  /\ colonyCache' = [colonyCache EXCEPT ![p] = EmptyMap]
  /\ agentCache' = [agentCache EXCEPT ![p] = EmptyMap]
  /\ last' = NoExchange
  /\ UNCHANGED <<now, config, metricsBound, colonies, agents, alarmAt,
                 cleanupSnap, lastReg, firstPubkey, keyVars, thrown, inFlight, metricsVars>>

\* Time passes.
Tick(maxTicks) ==
  /\ now + TickMs <= StartMs + maxTicks * TickMs
  /\ now' = now + TickMs
  /\ last' = NoExchange
  /\ UNCHANGED <<config, metricsBound, registryVars, keyVars, thrown, inFlight, metricsVars>>

\* Time passes under a runtime that runs every alarm at the time it was
\* set for: no alarm is overdue when the clock moves on.
TickPrompt(maxTicks) ==
  /\ \A p \in PartitionNames :
       IF alarmAt[p] = None THEN TRUE ELSE now < Val(alarmAt[p])
  /\ Tick(maxTicks)

----------------------------------------------------------------------------
(* Requests.                                                               *)

ColonyRequest(meshId, pubkey, endpoints) ==
  [meshId |-> meshId, pubkey |-> pubkey, endpoints |-> endpoints,
   meshIpv4 |-> None, meshIpv6 |-> None, connectPort |-> None,
   publicPort |-> None, metadata |-> None, observedEndpoint |-> None,
   publicEndpoint |-> None]

AgentRequest(agentId, meshId, pubkey, endpoints) ==
  [agentId |-> agentId, meshId |-> meshId, pubkey |-> pubkey,
   endpoints |-> endpoints, observedEndpoint |-> None, metadata |-> None]

\* The requests of the specification that follows registrations over time.
TimedColonyRequests ==
  { ColonyRequest(Some("m1"), Some("pkA"), Some(<<"1.2.3.4:51820">>)),
    ColonyRequest(Some("m1"), Some("pkB"), Some(<<"5.6.7.8:51820">>)) }

TimedAgentRequests ==
  { AgentRequest(Some("a1"), Some("m1"), Some("pkX"), Some(<<"1.2.3.4:7000">>)) }

\* An observed endpoint as a client reports it.
ObservedEndpoint(ip, port, protocol) ==
  [ip |-> ip, port |-> port, protocol |-> protocol]

\* The values of observedEndpoint that the field specifications draw from:
\* absent, or private, public and unique-local addresses with a zero and a
\* non-zero port.
ObservedEndpoints ==
  {None} \cup
  { Some(ObservedEndpoint(ip, pp[1], pp[2])) :
      ip \in {IP_10_0_0_1, IP_5_6_7_8, IP_fd00_1, IP_FD00_1},
      pp \in {<<0, "udp">>, <<51820, "tcp">>} }

\* The values of the CF-Connecting-IP header.
ClientHeaders == {None, Some(<<>>), Some(IP_1_2_3_4)}

\* Requests with each required field absent, empty or present.
ValidationColonyRequests ==
  { [ColonyRequest(m, k, e) EXCEPT !.observedEndpoint = o] :
      m \in {None, Some(""), Some("m1")},
      k \in {None, Some(""), Some("pkA")},
      e \in {None, Some(<<>>), Some(<<"1.2.3.4:51820">>)},
      o \in {None, Some(ObservedEndpoint(IP_5_6_7_8, 51820, "udp"))} }

\* Valid requests with the optional fields absent, zero or empty, and set.
BaseColonyRequest ==
  ColonyRequest(Some("m1"), Some("pkA"),
                Some(<<"10.0.0.1:51820", "1.2.3.4:51820">>))

RegionMetadata == [k \in {"region"} |-> "us-east"]

RoundTripColonyRequests ==
  { [BaseColonyRequest EXCEPT !.meshIpv4 = v] : v \in {Some(""), Some("10.42.0.1")} }
  \cup { [BaseColonyRequest EXCEPT !.meshIpv6 = v] : v \in {Some(""), Some("fd42::1")} }
  \cup { [BaseColonyRequest EXCEPT !.connectPort = v] : v \in {Some(0), Some(9000)} }
  \cup { [BaseColonyRequest EXCEPT !.publicPort = v] : v \in {Some(0), Some(443)} }
  \cup { [BaseColonyRequest EXCEPT !.metadata = v] :
           v \in {Some(EmptyMap), Some(RegionMetadata)} }
  \cup { [BaseColonyRequest EXCEPT !.meshIpv4 = Some("10.42.0.1"),
                                   !.meshIpv6 = Some("fd42::1"),
                                   !.connectPort = Some(9000),
                                   !.publicPort = Some(443),
                                   !.metadata = Some(RegionMetadata)] }

\* Valid requests with each kind of observed endpoint.
ObservedColonyRequests ==
  { [BaseColonyRequest EXCEPT !.observedEndpoint = o] : o \in ObservedEndpoints }

ObservedAgentRequests ==
  { [AgentRequest(Some("a1"), Some("m1"), Some("pkX"), Some(<<"1.2.3.4:7000">>))
       EXCEPT !.observedEndpoint = o] :
      o \in {None,
             Some(ObservedEndpoint(IP_10_0_0_1, 7000, "tcp")),
             Some(ObservedEndpoint(IP_5_6_7_8, 7000, "tcp")),
             Some(ObservedEndpoint(IP_FD00_1, 0, "udp"))} }

\* CreateBootstrapToken requests: complete, and with one field absent or
\* empty.
TokenRequest(reefId, colonyId, agentId, intent) ==
  [reefId |-> reefId, colonyId |-> colonyId, agentId |-> agentId,
   intent |-> intent]

FullTokenRequest ==
  TokenRequest(Some("reef1"), Some("m1"), Some("a1"), Some("register_agent"))

TokenRequests ==
  {FullTokenRequest}
  \cup { [FullTokenRequest EXCEPT ![f] = v] :
           f \in {"reefId", "colonyId", "agentId", "intent"},
           v \in {None, Some("")} }

\* The values of crypto.randomUUID().
UUIDs == {"uuid-1", "uuid-2"}

\* The environments of the token specification.
KeyEnvs ==
  { [DISCOVERY_SIGNING_KEY |-> k, DISCOVERY_SIGNING_KEY_DEV |-> d] :
      k \in {None, Some(EmptyText), Some(GarbledText),
             Some(SigningKeyText("key-1", "seed-1", 64)),
             Some(SigningKeyText("key-1", "seed-1", 32)),
             Some(SigningKeyText("key-1", "seed-1", 16))},
      d \in {None, Some(SigningKeyText("key-dev", "seed-dev", 64))} }

\* The errors that the error specification throws: a ConnectError with
\* each code, and an exception that is no ConnectError.
ThrownErrors ==
  { ConnectError(m, Some(c)) :
      m \in {"colony not found", ""}, c \in 0..MaxCode }
  \cup { PlainError("SQLITE_FULL") }

----------------------------------------------------------------------------
(* Specifications.                                                         *)

InitRegistry ==
  /\ now = StartMs
  /\ colonies = [p \in PartitionNames |-> EmptyMap]
  /\ agents = [p \in PartitionNames |-> EmptyMap]
  /\ colonyCache = [p \in PartitionNames |-> EmptyMap]
  /\ agentCache = [p \in PartitionNames |-> EmptyMap]
  /\ alarmAt = [p \in PartitionNames |-> None]
  /\ live = {}
  /\ cleanupSnap = EmptyMap
  /\ lastReg = EmptyMap
  /\ firstPubkey = EmptyMap
  /\ inFlight = EmptyMap
  /\ metrics = [counts |-> EmptyMap, pendingCounts |-> EmptyMap,
                flushScheduled |-> FALSE, flushes |-> EmptyMap,
                alarmAt |-> None]
  /\ trackLog = EmptyMap
  /\ last = NoExchange

InitKeys ==
  /\ signingKeyEnv = [DISCOVERY_SIGNING_KEY |-> None,
                      DISCOVERY_SIGNING_KEY_DEV |-> None]
  /\ cachedKeys = None
  /\ cachedKeySource = None

\* parseConfig(env) for DEFAULT_TTL_SECONDS = "1" and CLEANUP_INTERVAL_MS =
\* "500".
TimedConfigs ==
  { [defaultTTLSeconds |-> 1, cleanupIntervalMs |-> 500] }

Init ==
  /\ InitRegistry
  /\ InitKeys
  /\ config \in TimedConfigs
  /\ metricsBound = FALSE
  /\ thrown = None

Next ==
  \/ \E request \in TimedColonyRequests : RegisterColony(request, None)
  \/ LookupColony([meshId |-> Some("m1")])
  \/ \E request \in TimedAgentRequests : RegisterAgent(request, None)
  \/ LookupAgent([agentId |-> Some("a1"), meshId |-> Some("m1")])
  \/ Alarm("m1", TRUE)
  \/ Evict("m1")
  \/ Tick(MaxTicks)

Spec == Init /\ [][Next]_vars

\* The same operations under a runtime that runs every alarm on time.
NextPrompt ==
  \/ \E request \in TimedColonyRequests : RegisterColony(request, None)
  \/ LookupColony([meshId |-> Some("m1")])
  \/ \E request \in TimedAgentRequests : RegisterAgent(request, None)
  \/ LookupAgent([agentId |-> Some("a1"), meshId |-> Some("m1")])
  \/ Alarm("m1", TRUE)
  \/ Evict("m1")
  \/ TickPrompt(MaxTicks)

SpecPrompt == Init /\ [][NextPrompt]_vars

\* RegisterColony requests whose handling overlaps at one partition.
NextConcurrent ==
  \/ \E id \in 1..MaxInFlight, request \in TimedColonyRequests :
       Arrive(id, request)
  \/ \E id \in 1..MaxInFlight : Proceed(id)
  \/ LookupColony([meshId |-> Some("m1")])
  \/ Tick(MaxTicks)

SpecConcurrent == Init /\ [][NextConcurrent]_vars

\* Agent lookups that do and do not name their mesh, in every state of the
\* partition of mesh m1.
AgentLookups ==
  { [agentId |-> a, meshId |-> m] :
      a \in {None, Some(""), Some("a1"), Some("a2")},
      m \in {None, Some(""), Some("m1")} }

NextAgentLookup ==
  \/ \E request \in TimedAgentRequests : RegisterAgent(request, None)
  \/ \E request \in AgentLookups : LookupAgent(request)
  \/ Alarm("m1", TRUE)
  \/ Evict("m1")
  \/ Tick(MaxTicks)

SpecAgentLookup == Init /\ [][NextAgentLookup]_vars

\* parseConfig(env) with no variable set: the defaults.
DefaultConfigs ==
  { [defaultTTLSeconds |-> 300, cleanupIntervalMs |-> 60000] }

\* The specification that varies the fields of the requests.
InitFields ==
  /\ InitRegistry
  /\ InitKeys
  /\ config \in DefaultConfigs
  /\ metricsBound = FALSE
  /\ thrown = None

NextFields ==
  \/ \E request \in ValidationColonyRequests, header \in {None, Some(IP_1_2_3_4)} :
       RegisterColony(request, header)
  \/ \E request \in RoundTripColonyRequests : RegisterColony(request, None)
  \/ LookupColony([meshId |-> Some("m1")])

SpecFields == InitFields /\ [][NextFields]_vars

\* The specification that varies the observed endpoint and the client
\* address.
NextObserved ==
  \/ \E request \in ObservedColonyRequests, header \in ClientHeaders :
       RegisterColony(request, header)
  \/ LookupColony([meshId |-> Some("m1")])
  \/ \E request \in ObservedAgentRequests, header \in {None, Some(IP_1_2_3_4)} :
       RegisterAgent(request, header)
  \/ LookupAgent([agentId |-> Some("a1"), meshId |-> Some("m1")])

SpecObserved == InitFields /\ [][NextObserved]_vars

\* The specification of token issuance.
InitToken ==
  /\ InitRegistry
  /\ signingKeyEnv \in KeyEnvs
  /\ cachedKeys = None
  /\ cachedKeySource = None
  /\ config \in DefaultConfigs
  /\ metricsBound = FALSE
  /\ thrown = None

NextToken ==
  \/ \E request \in TokenRequests, jti \in UUIDs :
       CreateBootstrapToken(request, jti)
  \/ GetJWKS
  \/ StartIsolate
  \/ Tick(MaxTicks)

SpecToken == InitToken /\ [][NextToken]_vars

\* The specification of the way of an error to the wire: thrown inside a
\* partition's handler or inside the gateway.
InitErr ==
  /\ InitRegistry
  /\ InitKeys
  /\ config \in DefaultConfigs
  /\ metricsBound = FALSE
  /\ thrown \in { Some([origin |-> o, error |-> e, carried |-> e,
                        at |-> IF o = "partition" THEN "partition"
                               ELSE "dispatcher"]) :
                    o \in {"partition", "gateway"}, e \in ThrownErrors }

NextErr ==
  \/ PartitionCatches
  \/ HandlerThrows
  \/ DispatcherCatches

SpecErr == InitErr /\ [][NextErr]_vars

----------------------------------------------------------------------------
(* Properties of registrations over time (checked under Spec).             *)

\* A RegisterColony request that passes validation.
ValidColonyRequest(request) ==
  /\ request.meshId # None /\ Val(request.meshId) # ""
  /\ request.pubkey # None /\ Val(request.pubkey) # ""
  /\ \/ request.endpoints # None /\ Val(request.endpoints) # <<>>
     \/ request.observedEndpoint # None

IsError(codeString, httpStatus) ==
  last.status = httpStatus /\ last.body.code = codeString

\* C1 as stated: among the RegisterColony calls for one mesh_id only those
\* carrying the pubkey of the first successful call ever succeed; a call with
\* any other pubkey fails with already_exists (409).
C1_OnlyFirstPubkeyEverSucceeds ==
  (last.rpc = "RegisterColony" /\ ValidColonyRequest(last.request)) =>
    LET m == Val(last.request.meshId) IN
      IF Val(last.request.pubkey) = firstPubkey[m]
      THEN last.status = 200
      ELSE IsError("already_exists", 409)

\* C1 amended: a valid RegisterColony succeeds exactly when the partition
\* stores no row for the mesh_id or the stored row has the same pubkey; as
\* long as a row with a different pubkey is stored, expired or not, the call
\* fails with already_exists (409). Once the cleanup alarm has deleted the
\* row, a different pubkey succeeds.
C1_SplitBrainWhileRowStored ==
  (last.rpc = "RegisterColony" /\ ValidColonyRequest(last.request)) =>
    IF last.prior # None /\ Val(last.prior).pubkey # Val(last.request.pubkey)
    THEN IsError("already_exists", 409)
    ELSE last.status = 200

\* A second pubkey is rejected although the stored row has already expired.
C1_Witness ==
  /\ last.rpc = "RegisterColony"
  /\ IsError("already_exists", 409)
  /\ Val(last.prior).expires_at < now

\* The columns of a row that a lookup response carries as they are.
CarriesColony(body, row) ==
  /\ body.meshId = row.mesh_id
  /\ body.pubkey = row.pubkey
  /\ body.endpoints = row.endpoints.text

CarriesAgent(body, row) ==
  /\ body.agentId = row.agent_id
  /\ body.meshId = row.mesh_id
  /\ body.pubkey = row.pubkey
  /\ body.endpoints = row.endpoints.text

\* C2: a lookup returns the stored record iff a row for the key exists with
\* expires_at >= now, and fails with not_found (404) otherwise, also when
\* the read cache holds an entry for the key.
C2_LookupIffUnexpired ==
  /\ last.rpc = "LookupColony" =>
       LET t == colonies[last.partition]
           k == Val(last.request.meshId)
       IN IF k \in DOMAIN t /\ t[k].expires_at >= now
          THEN last.status = 200 /\ CarriesColony(last.body, t[k])
          ELSE IsError("not_found", 404)
  /\ last.rpc = "LookupAgent" =>
       LET t == agents[last.partition]
           k == Val(last.request.agentId)
       IN IF k \in DOMAIN t /\ t[k].expires_at >= now
          THEN last.status = 200 /\ CarriesAgent(last.body, t[k])
          ELSE IsError("not_found", 404)

\* not_found for an expired row that is still stored and still cached.
C2_Witness ==
  /\ last.rpc = "LookupColony"
  /\ IsError("not_found", 404)
  /\ Val(last.request.meshId) \in DOMAIN colonies[last.partition]
  /\ Val(last.request.meshId) \in DOMAIN colonyCache[last.partition]

\* The latest successful registration of the key a lookup asked for.
LatestRegistration(kind, key) == MapGet(lastReg, <<kind, last.partition, key>>)

\* The request fields that a lookup response echoes.
EchoesRegistration(body, reg) ==
  /\ body.pubkey = Val(reg.body.pubkey)
  /\ body.endpoints = Val(reg.body.endpoints)
  /\ body.meshId = Val(reg.body.meshId)

\* C3: after a successful RegisterColony at time t with TTL T that no other
\* registration of the mesh_id followed, a LookupColony at t' with
\* t <= t' < t + T returns the registered record, and a LookupColony at
\* t' >= t + T + cleanup_interval_ms returns not_found.
C3_VisibleForTTLThenGone ==
  last.rpc = "LookupColony" =>
    LET reg == LatestRegistration("colony", Val(last.request.meshId)) IN
      reg # None =>
        /\ (Val(reg).at <= now /\ now < Val(reg).at + TTLMs) =>
             last.status = 200 /\ EchoesRegistration(last.body, Val(reg))
        /\ now >= Val(reg).at + TTLMs + config.cleanupIntervalMs =>
             IsError("not_found", 404)

\* A lookup one TTL and one cleanup interval after the registration.
C3_Witness ==
  /\ last.rpc = "LookupColony"
  /\ IsError("not_found", 404)
  /\ LatestRegistration("colony", "m1") # None
  /\ now >= Val(LatestRegistration("colony", "m1")).at + TTLMs
              + config.cleanupIntervalMs

\* C4: read-your-writes. A successful lookup returns the data of the latest
\* completed registration of its key, never that of an earlier one, also
\* when a lookup before that registration had filled the read cache.
C4_ReadYourWrites ==
  /\ (last.rpc = "LookupColony" /\ last.status = 200) =>
       LET reg == LatestRegistration("colony", Val(last.request.meshId)) IN
         /\ reg # None
         /\ EchoesRegistration(last.body, Val(reg))
         /\ last.body.lastSeen = Some([rfc3339ms |-> Val(reg).at \div 1000])
  /\ (last.rpc = "LookupAgent" /\ last.status = 200) =>
       LET reg == LatestRegistration("agent", Val(last.request.agentId)) IN
         /\ reg # None
         /\ EchoesRegistration(last.body, Val(reg))
         /\ last.body.agentId = Val(Val(reg).body.agentId)
         /\ last.body.lastSeen = Some([rfc3339ms |-> Val(reg).at \div 1000])

\* A successful lookup after a registration that found the cache filled.
C4_Witness ==
  /\ last.rpc = "LookupColony"
  /\ last.status = 200
  /\ Val(LatestRegistration("colony", "m1")).overCache
  /\ Val(LatestRegistration("colony", "m1")).at > StartMs

\* The row stored under the key of the register exchange just made.
StoredRow ==
  IF last.rpc = "RegisterColony"
  THEN colonies[last.partition][Val(last.request.meshId)]
  ELSE agents[last.partition][Val(last.request.agentId)]

\* C6: a successful upsert onto a key that has a stored row keeps the row's
\* created_at, sets updated_at to now and expires_at to now + TTL, and never
\* moves updated_at backwards.
C6_UpsertKeepsCreatedAt ==
  ( /\ last.rpc \in {"RegisterColony", "RegisterAgent"}
    /\ last.status = 200
    /\ last.prior # None ) =>
       /\ StoredRow.created_at = Val(last.prior).created_at
       /\ StoredRow.updated_at = now
       /\ StoredRow.expires_at = now + config.defaultTTLSeconds * 1000
       /\ StoredRow.updated_at >= Val(last.prior).updated_at

\* An upsert later than the creation of the row it replaces.
C6_Witness ==
  /\ last.rpc = "RegisterAgent"
  /\ last.status = 200
  /\ last.prior # None
  /\ StoredRow.created_at < StoredRow.updated_at

----------------------------------------------------------------------------
(* Properties of the request fields (checked under SpecFields).            *)

\* The endpoint list of a request, an absent list read as the empty one.
RequestedEndpoints(request) ==
  IF request.endpoints = None THEN <<>> ELSE Val(request.endpoints)

\* C5: round trip. A LookupColony right after a successful RegisterColony
\* returns meshId, pubkey, endpoints, meshIpv4, meshIpv6, connectPort,
\* publicPort and metadata identical to the values of the request, whatever
\* the values (0 and empty ones included), and observedEndpoints holds the
\* observed endpoint that the registration returned, if any.
C5_RoundTrip ==
  (last.rpc = "LookupColony" /\ LatestRegistration("colony", "m1") # None) =>
    LET reg == Val(LatestRegistration("colony", "m1")) IN
      /\ last.status = 200
      /\ last.body.meshId = Val(reg.body.meshId)
      /\ last.body.pubkey = Val(reg.body.pubkey)
      /\ last.body.endpoints = RequestedEndpoints(reg.body)
      /\ last.body.meshIpv4 = reg.body.meshIpv4
      /\ last.body.meshIpv6 = reg.body.meshIpv6
      /\ last.body.connectPort = reg.body.connectPort
      /\ last.body.publicPort = reg.body.publicPort
      /\ last.body.metadata = reg.body.metadata
      /\ last.body.observedEndpoints =
           IF reg.reply.observedEndpoint = None THEN <<>>
           ELSE <<Val(reg.reply.observedEndpoint)>>

\* What C9 calls a request that must be refused.
MissingRequiredField(request) ==
  \/ request.meshId = None \/ request.meshId = Some("")
  \/ request.pubkey = None \/ request.pubkey = Some("")
  \/ /\ request.endpoints = None \/ request.endpoints = Some(<<>>)
     /\ request.observedEndpoint = None

\* C9: RegisterColony fails with invalid_argument (400) exactly when mesh_id
\* is missing, pubkey is missing, or there is neither a non-empty endpoints
\* list nor an observed_endpoint in the request, whether or not the
\* transport supplied an observed IP; every other request passes validation.
C9_ValidationOfRegisterColony ==
  last.rpc = "RegisterColony" =>
    IF MissingRequiredField(last.request)
    THEN IsError("invalid_argument", 400)
    ELSE last.status = 200 \/ IsError("already_exists", 409)

\* A request without endpoints is refused although the transport supplied
\* the client's address.
C9_Witness ==
  /\ last.rpc = "RegisterColony"
  /\ IsError("invalid_argument", 400)
  /\ last.clientIP # None
  /\ last.request.meshId = Some("m1")
  /\ last.request.pubkey = Some("pkA")
  /\ last.request.endpoints = Some(<<>>)

----------------------------------------------------------------------------
(* Properties of the observed endpoint (checked under SpecObserved).       *)

\* A reference range test for 10.0.0.0/8, 172.16.0.0/12, 192.168.0.0/16,
\* 127.0.0.0/8, ::1 and fc00::/7, computed from the numbers that the text
\* of the address denotes.
LowerHex ==
  <<"0", "1", "2", "3", "4", "5", "6", "7", "8", "9", "a", "b", "c", "d",
    "e", "f">>
UpperHex ==
  <<"0", "1", "2", "3", "4", "5", "6", "7", "8", "9", "A", "B", "C", "D",
    "E", "F">>

DigitValue(c) ==
  IF \E i \in 1..16 : LowerHex[i] = c
  THEN (CHOOSE i \in 1..16 : LowerHex[i] = c) - 1
  ELSE (CHOOSE i \in 1..16 : UpperHex[i] = c) - 1

RECURSIVE GroupValue(_, _)
GroupValue(group, base) ==
  IF group = <<>> THEN 0
  ELSE GroupValue(SubSeq(group, 1, Len(group) - 1), base) * base
         + DigitValue(group[Len(group)])

RECURSIVE SplitText(_, _)
SplitText(text, sep) ==
  IF \A i \in 1..Len(text) : text[i] # sep THEN <<text>>
  ELSE LET i == CHOOSE j \in 1..Len(text) :
                  text[j] = sep /\ \A k \in 1..(j - 1) : text[k] # sep
       IN <<SubSeq(text, 1, i - 1)>>
            \o SplitText(SubSeq(text, i + 1, Len(text)), sep)

InPrivateRange(ip) ==
  IF \E i \in 1..Len(ip) : ip[i] = ":"
  THEN LET groups == SplitText(ip, ":")
           value(i) == GroupValue(groups[i], 16)
       IN \/ groups[1] # <<>> /\ value(1) \div 512 = 126
          \/ /\ value(Len(groups)) = 1
             /\ \A i \in 1..(Len(groups) - 1) : value(i) = 0
  ELSE LET groups == SplitText(ip, ".")
           value(i) == GroupValue(groups[i], 10)
       IN /\ Len(groups) = 4
          /\ \/ value(1) = 10
             \/ value(1) = 127
             \/ value(1) = 172 /\ value(2) \in 16..31
             \/ value(1) = 192 /\ value(2) = 168

\* The observed endpoint that C10 expects for a request and a client
\* address.
ExpectedObserved(request, clientIP) ==
  IF /\ clientIP # None
     /\ \/ request.observedEndpoint = None
        \/ InPrivateRange(Val(request.observedEndpoint).ip)
  THEN Some([ip |-> Val(clientIP),
             port |-> IF request.observedEndpoint = None THEN 0
                      ELSE Val(request.observedEndpoint).port,
             protocol |-> "udp"])
  ELSE request.observedEndpoint

\* C10: on a successful RegisterColony or RegisterAgent the stored and the
\* returned observed endpoint is {ip: observed_ip, port: the request's
\* observed port or 0, protocol: "udp"} exactly when observed_ip is set and
\* the request has no observed_endpoint or one whose ip is a private
\* (RFC 1918, loopback or unique-local) address; otherwise it is the
\* client's observed_endpoint, or none, unchanged.
C10_ObservedEndpointSynthesis ==
  (last.rpc \in {"RegisterColony", "RegisterAgent"} /\ last.status = 200) =>
    LET expected == ExpectedObserved(last.request, last.clientIP) IN
      /\ last.body.observedEndpoint = expected
      /\ StoredRow.observed_endpoint =
           IF expected = None THEN None ELSE Some([text |-> Val(expected)])

----------------------------------------------------------------------------
(* Properties of token issuance (checked under SpecToken).                 *)

\* The key set that GET /.well-known/jwks.json publishes in this state.
PublishedKeys == handleJWKS(signingKeyEnv).body.keys

\* C7: every token returned by CreateBootstrapToken carries a kid that
\* appears in the key set published at /.well-known/jwks.json at that time,
\* the published key being the public half of the key that signed the token.
C7_TokenKidIsPublished ==
  (last.rpc = "CreateBootstrapToken" /\ last.status = 200) =>
    \E i \in DOMAIN PublishedKeys :
      /\ PublishedKeys[i].kid = last.body.jwt.header.kid
      /\ PublishedKeys[i].x = PublicKeyOf(last.body.jwt.signature.signedWith)

----------------------------------------------------------------------------
(* Properties of error responses (checked under SpecErr).                  *)

\* The status mapping as the specification tabulates it: for code c, entry
\* c + 1 is the code string and the HTTP status.
StatusTable ==
  << <<"ok", 200>>, <<"canceled", 408>>, <<"unknown", 500>>,
     <<"invalid_argument", 400>>, <<"deadline_exceeded", 408>>,
     <<"not_found", 404>>, <<"already_exists", 409>>,
     <<"permission_denied", 403>>, <<"resource_exhausted", 429>>,
     <<"failed_precondition", 400>>, <<"aborted", 409>>,
     <<"out_of_range", 400>>, <<"unimplemented", 501>>, <<"internal", 500>>,
     <<"unavailable", 503>>, <<"data_loss", 500>>,
     <<"unauthenticated", 401>> >>

\* C8: an RPC that fails with Connect code c in 0..16 is answered with the
\* HTTP status and the code string of row c of the status table, whether
\* the error was thrown in the gateway or thrown inside a registry partition
\* and relayed by the gateway.
C8_StatusMapping ==
  ( /\ last.rpc = "failed"
    /\ last.error.name = "ConnectError"
    /\ Val(last.error.code) \in 0..(Len(StatusTable) - 1) ) =>
       /\ last.body.code = StatusTable[Val(last.error.code) + 1][1]
       /\ last.status = StatusTable[Val(last.error.code) + 1][2]

\* already_exists thrown inside a partition reaches the client as 409.
C8_Witness ==
  /\ last.rpc = "failed"
  /\ last.origin = "partition"
  /\ last.error.code = Some(AlreadyExists)
  /\ last.status = 409
  /\ last.body.code = "already_exists"

----------------------------------------------------------------------------
(* Properties of the instants on the wire (checked under Spec).            *)

\* The instant, in milliseconds since the epoch, that an RFC 3339 text
\* denotes.
InstantOf(text) == text.rfc3339ms

\* C11: the instant emitted as expiresAt in a register response is the
\* registration time plus the TTL, to whole-second precision, and the
\* instant emitted as lastSeen in a lookup response is the updated_at of the
\* record, to whole-second precision.
C11_WireInstants ==
  /\ (last.rpc \in {"RegisterColony", "RegisterAgent"} /\ last.status = 200) =>
       InstantOf(last.body.expiresAt) \div 1000 = (now + TTLMs) \div 1000
  /\ (last.rpc \in {"LookupColony", "LookupAgent"} /\ last.status = 200) =>
       /\ last.body.lastSeen # None
       /\ InstantOf(Val(last.body.lastSeen)) \div 1000
            = Val(last.prior).updated_at \div 1000

----------------------------------------------------------------------------
(* Properties of the cleanup (checked under SpecPrompt).                   *)

\* The expires_at of the rows stored in the partitions, of both tables.
StoredExpiries ==
  UNION { {colonies[p][k].expires_at : k \in DOMAIN colonies[p]}
            \cup {agents[p][k].expires_at : k \in DOMAIN agents[p]} :
          p \in PartitionNames }

----------------------------------------------------------------------------
(* C13: concurrent RegisterColony requests for one mesh_id.                *)

\* Two requests in flight overlap when one arrived before the other was
\* answered.
Overlap(i, j) == i \in inFlight[j].among \/ j \in inFlight[i].among

\* Both requests are answered, were handled concurrently for the same
\* mesh_id with different pubkeys, and found no row stored on arrival.
Raced(i, j) ==
  /\ i # j
  /\ inFlight[i].pc = "done" /\ inFlight[j].pc = "done"
  /\ Overlap(i, j)
  /\ inFlight[i].request.meshId = inFlight[j].request.meshId
  /\ inFlight[i].request.pubkey # inFlight[j].request.pubkey
  /\ inFlight[i].found = None /\ inFlight[j].found = None

\* The stored row of the mesh is entirely the request's.
RowIsOf(request) ==
  LET p == idFromName(request.meshId)
      key == Val(request.meshId)
  IN /\ key \in DOMAIN colonies[p]
     /\ colonies[p][key].pubkey = Val(request.pubkey)
     /\ colonies[p][key].endpoints = JSONstringify(Val(request.endpoints))

\* C13: of two concurrent RegisterColony requests for one mesh_id with
\* different pubkeys against no stored row, exactly one succeeds, the other
\* is answered already_exists, and the stored row is the winner's.
C13_ConcurrentRegistrationsSerialised ==
  \A i \in DOMAIN inFlight : \A j \in DOMAIN inFlight :
    Raced(i, j) =>
      \E w \in {i, j} : \E l \in {i, j} \ {w} :
        /\ inFlight[w].status = 200
        /\ inFlight[l].status = 409
        /\ inFlight[l].code = Some("already_exists")
        /\ RowIsOf(inFlight[w].request)

C13_Witness ==
  /\ 1 \in DOMAIN inFlight /\ 2 \in DOMAIN inFlight
  /\ Raced(1, 2)
  /\ inFlight[2].status = 200
  /\ inFlight[1].status = 409
  /\ RowIsOf(inFlight[2].request)


----------------------------------------------------------------------------
(* C14: the order of a record's timestamps.                                *)

DecimalDigits == <<"0", "1", "2", "3", "4", "5", "6", "7", "8", "9">>

\* The number written by a text of decimal digits.
RECURSIVE DecimalValue(_)
DecimalValue(text) ==
  IF text = <<>> THEN 0
  ELSE DecimalValue(SubSeq(text, 1, Len(text) - 1)) * 10
         + (CHOOSE i \in 1..10 : DecimalDigits[i] = text[Len(text)]) - 1

\* parseInt(text, 10) for a text of decimal digits with an optional sign.
parseInt(text) ==
  IF text[1] = "-" THEN 0 - DecimalValue(Tail(text)) ELSE DecimalValue(text)

\* types.ts parseConfig: an unset or empty variable takes its default; the
\* number parsed is taken as it is.
parseConfig(env) ==
  [defaultTTLSeconds |->
     parseInt(IF TruthyText(env.DEFAULT_TTL_SECONDS)
              THEN Val(env.DEFAULT_TTL_SECONDS) ELSE <<"3", "0", "0">>),
   cleanupIntervalMs |->
     parseInt(IF TruthyText(env.CLEANUP_INTERVAL_MS)
              THEN Val(env.CLEANUP_INTERVAL_MS)
              ELSE <<"6", "0", "0", "0", "0">>)]

\* Environments with DEFAULT_TTL_SECONDS unset, positive, zero and negative.
ConfigEnvs ==
  { [DEFAULT_TTL_SECONDS |-> ttl, CLEANUP_INTERVAL_MS |-> Some(<<"5", "0", "0">>)] :
      ttl \in {None, Some(<<"1">>), Some(<<"0">>), Some(<<"-", "1">>)} }

InitConfig ==
  /\ InitRegistry
  /\ InitKeys
  /\ config \in {parseConfig(env) : env \in ConfigEnvs}
  /\ metricsBound = FALSE
  /\ thrown = None

NextConfig ==
  \/ \E request \in TimedColonyRequests : RegisterColony(request, None)
  \/ \E request \in TimedAgentRequests : RegisterAgent(request, None)
  \/ Tick(MaxTicks)

SpecConfig == InitConfig /\ [][NextConfig]_vars

StoredTimestamps ==
  UNION { {<<colonies[p][k].created_at, colonies[p][k].updated_at,
             colonies[p][k].expires_at>> : k \in DOMAIN colonies[p]}
            \cup {<<agents[p][k].created_at, agents[p][k].updated_at,
                    agents[p][k].expires_at>> : k \in DOMAIN agents[p]} :
          p \in PartitionNames }

\* C14: every stored colony and agent record has
\* expires_at > updated_at >= created_at.
C14_TimestampsOrdered ==
  \A t \in StoredTimestamps : t[3] > t[2] /\ t[2] >= t[1]


----------------------------------------------------------------------------
(* C15: LookupAgent without a mesh id.                                     *)

\* C15: a LookupAgent whose body has no meshId is answered invalid_argument
\* with HTTP 400, whatever its agentId and whatever the registry holds, and
\* no partition is reached: no object is constructed, no alarm set, no cache
\* or table touched.
C15_LookupAgentNeedsMeshId ==
  [][ (last'.rpc = "LookupAgent" /\ ~TruthyStr(last'.request.meshId)) =>
        /\ last'.status = 400
        /\ last'.body.code = "invalid_argument"
        /\ UNCHANGED registryVars ]_vars

C15_Witness ==
  /\ last.rpc = "LookupAgent"
  /\ last.request = [agentId |-> Some("a1"), meshId |-> None]
  /\ last.status = 400
  /\ "a1" \in DOMAIN agents["m1"]
  /\ agents["m1"]["a1"].expires_at > now


----------------------------------------------------------------------------
(* The dispatcher's reading of a request (index.ts handleConnectRequest).  *)

\* A Content-Type header is the sequence of its parts, the media type first;
\* contentType.includes(part).
Includes(contentType, part) ==
  \E i \in 1..Len(contentType) : contentType[i] = part

\* await request.json(): the parsed body, or the SyntaxError of a body that
\* is no JSON text.
requestJson(wellFormed) ==
  IF wellFormed THEN [responds |-> None, throws |-> None]
  ELSE [responds |-> None, throws |-> Some(PlainError("SyntaxError"))]

\* The body is read before the try block of handleConnectRequest is entered.
readBody(contentType, wellFormed) ==
  IF Includes(contentType, "application/json") THEN requestJson(wellFormed)
  ELSE IF Includes(contentType, "application/proto")
  THEN [responds |-> Some(createConnectErrorResponse(ConnectError(
          "Only JSON encoding is supported", Some(InvalidArgument)))),
        throws |-> None]
  ELSE requestJson(wellFormed)

\* The RPCs that the switch gives to a handler.
HandledRPCs ==
  {"RegisterColony", "LookupColony", "RegisterAgent", "LookupAgent",
   "CreateBootstrapToken"}

\* The switch for the other names.
Unhandled(rpc) ==
  IF rpc \in {"RequestRelay", "ReleaseRelay"}
  THEN ConnectError("Relay not supported in Workers", Some(Unimplemented))
  ELSE ConnectError("Unknown RPC", Some(Unimplemented))

\* POST /coral.discovery.v1.DiscoveryService/<rpc> that no handler serves:
\* the body cannot be read, or the switch has no handler for the name.
Post(rpc, contentType, wellFormed) ==
  LET read == readBody(contentType, wellFormed)
      response == IF read.responds # None THEN Val(read.responds)
                  ELSE IF read.throws # None THEN WorkerCatch(Val(read.throws))
                  ELSE WorkerCatch(Unhandled(rpc))
  IN /\ \/ read.responds # None
        \/ read.throws # None
        \/ rpc \notin HandledRPCs
     /\ last' = [rpc |-> rpc, contentType |-> contentType,
                 wellFormed |-> wellFormed, status |-> response.status,
                 body |-> response.body]
     /\ UNCHANGED <<now, config, metricsBound, registryVars, keyVars, thrown,
                    inFlight, metricsVars>>

\* Content types with and without parameters, and none.
ContentTypes ==
  { <<>>, <<"application/json", "charset=utf-8">>, <<"application/proto">>,
    <<"text/plain">> }

PostedRPCs ==
  {"RegisterColony", "CreateBootstrapToken", "RequestRelay", "ReleaseRelay",
   "NoSuchRPC"}

NextGateway ==
  \/ \E request \in TimedColonyRequests : RegisterColony(request, None)
  \/ \E rpc \in PostedRPCs, contentType \in ContentTypes,
        wellFormed \in BOOLEAN : Post(rpc, contentType, wellFormed)
  \/ Tick(MaxTicks)

SpecGateway == Init /\ [][NextGateway]_vars

----------------------------------------------------------------------------
(* C16: the relay RPCs.                                                    *)

\* C16: RequestRelay and ReleaseRelay are answered unimplemented with HTTP
\* 501 for every body and content type, in every state, and change nothing.
C16_RelayAlwaysUnimplemented ==
  [][ last'.rpc \in {"RequestRelay", "ReleaseRelay"} =>
        /\ last'.status = 501
        /\ last'.body.code = "unimplemented"
        /\ UNCHANGED <<registryVars, keyVars>> ]_vars


----------------------------------------------------------------------------
(* The metrics partition (wasm-loader.ts DiscoveryMetrics).                *)

\* Bounds of the metrics model: the track calls, the delayed flushes that may
\* be outstanding at once, and the clock, which moves on by ElapseMs at most
\* MaxElapses times.
MaxTracks == 2
MaxFlushes == 3
ElapseMs == 1800000
MaxElapses == 2
\* The track calls of the specification of the flush timers.
MaxTimerTracks == 4
\* The clock of the specification of the hourly alarm moves on by ElapseMs
\* at most MaxSweepElapses times.
MaxSweepElapses == 3

\* The length of an hour bucket and of the alarm period (3600_000), the
\* batching delay of scheduleFlush (10_000), the age at which the alarm
\* deletes a bucket (24 * 3600_000) and a cleanup snapshot (10 * 60_000).
HourMs == 3600000
FlushDelayMs == 10000
BucketRetentionMs == 86400000
StaleSnapshotMs == 600000

\* The operations that the model tracks.
TrackedOperations == {"RegisterColony", "LookupAgent"}

\* new Date(at).toISOString().slice(0, 13): the text of the UTC hour of the
\* instant, held as the number of whole hours since the epoch.
HourOf(at) == at \div HourMs

\* new Date(hour + ":00:00Z").getTime(): the first millisecond of the hour.
HourStart(hour) == hour * HourMs

\* map.get(key) || 0
Count(m, key) == IF key \in DOMAIN m THEN m[key] ELSE 0

RECURSIVE SumCounts(_, _)
SumCounts(m, keys) ==
  IF keys = {} THEN 0
  ELSE LET key == CHOOSE x \in keys : TRUE
       IN m[key] + SumCounts(m, keys \ {key})

\* A run of flushCounts, or the timer of scheduleFlush before it: where it
\* stands, the counts it took from pendingCounts, what it read from the
\* storage, when its timer is due and whether alarm() called it.
Flush(pc, toFlush, existing, due, fromAlarm) ==
  [pc |-> pc, toFlush |-> toFlush, existing |-> existing, due |-> due,
   fromAlarm |-> fromAlarm]

\* The alarm's run has the id 0, the delayed flushes the ids 1..MaxFlushes.
AlarmFlush == 0
FreeFlushIds == (1..MaxFlushes) \ DOMAIN metrics.flushes

\* handleTrack: count the operation in the bucket of the current hour, in
\* memory, and schedule a delayed flush unless one is scheduled.
TrackUpTo(operation, maxTracks) ==
  /\ SumCounts(trackLog, DOMAIN trackLog) < maxTracks
  /\ metrics.flushScheduled \/ FreeFlushIds # {}
  /\ LET hour == HourOf(now)
         key == <<operation, hour>>
         counted == MapPut(metrics.pendingCounts, key,
                           Count(metrics.pendingCounts, key) + 1)
     IN metrics' =
          IF metrics.flushScheduled
          THEN [metrics EXCEPT !.pendingCounts = counted]
          ELSE LET id == CHOOSE i \in FreeFlushIds :
                           \A j \in FreeFlushIds : i <= j
               IN [metrics EXCEPT
                     !.pendingCounts = counted,
                     !.flushScheduled = TRUE,
                     !.flushes = MapPut(@, id,
                                   Flush("delay", EmptyMap, EmptyMap,
                                         now + FlushDelayMs, FALSE))]
  /\ trackLog' = MapPut(trackLog, <<operation, now>>,
                        Count(trackLog, <<operation, now>>) + 1)
  /\ last' = [rpc |-> "Track", status |-> 200, body |-> [ok |-> TRUE]]
  /\ UNCHANGED <<now, config, metricsBound, registryVars, keyVars, thrown,
                 inFlight>>

Track(operation) == TrackUpTo(operation, MaxTracks)

\* flushCounts up to its first await: nothing pending ends the run; else the
\* run takes the pending counts, clears them and resets flushScheduled, and
\* then waits for storage.get.
flushCountsBegin(m, id, fromAlarm) ==
  IF DOMAIN m.pendingCounts = {}
  THEN [m EXCEPT !.flushScheduled = FALSE,
                 !.flushes = IF fromAlarm
                             THEN MapPut(@, id, Flush("sweep", EmptyMap,
                                                      EmptyMap, 0, TRUE))
                             ELSE MapDel(@, id)]
  ELSE [m EXCEPT !.pendingCounts = EmptyMap,
                 !.flushScheduled = FALSE,
                 !.flushes = MapPut(@, id, Flush("read", m.pendingCounts,
                                                 EmptyMap, 0, fromAlarm))]

\* scheduleFlush: the timer of 10 s has run out and flushCounts starts.
FlushTimer(id) ==
  /\ id \in DOMAIN metrics.flushes
  /\ metrics.flushes[id].pc = "delay"
  /\ now >= metrics.flushes[id].due
  /\ metrics' = flushCountsBegin(metrics, id, FALSE)
  /\ last' = NoExchange
  /\ UNCHANGED <<now, config, metricsBound, registryVars, keyVars, thrown,
                 inFlight, trackLog>>

\* flushCounts: storage.get(keys) returns the stored counts of the keys.
FlushRead(id) ==
  /\ id \in DOMAIN metrics.flushes
  /\ metrics.flushes[id].pc = "read"
  /\ LET keys == DOMAIN metrics.flushes[id].toFlush \cap DOMAIN metrics.counts
     IN metrics' = [metrics EXCEPT
                      !.flushes[id].existing = [k \in keys |-> metrics.counts[k]],
                      !.flushes[id].pc = "write"]
  /\ last' = NoExchange
  /\ UNCHANGED <<now, config, metricsBound, registryVars, keyVars, thrown,
                 inFlight, trackLog>>

\* flushCounts: storage.put(updates), each update being what the run read
\* plus what it took from pendingCounts.
FlushWrite(id) ==
  /\ id \in DOMAIN metrics.flushes
  /\ metrics.flushes[id].pc = "write"
  /\ LET run == metrics.flushes[id]
         updates == [k \in DOMAIN run.toFlush |->
                       Count(run.existing, k) + run.toFlush[k]]
     IN metrics' = [metrics EXCEPT
                      !.counts = [k \in DOMAIN @ \cup DOMAIN updates |->
                                    IF k \in DOMAIN updates THEN updates[k]
                                    ELSE @[k]],
                      !.flushes[id].pc = "arm"]
  /\ last' = NoExchange
  /\ UNCHANGED <<now, config, metricsBound, registryVars, keyVars, thrown,
                 inFlight, trackLog>>

\* flushCounts: getAlarm, and setAlarm in an hour if none is set. The run of
\* a timer ends here; alarm() goes on to its clean-up.
FlushArm(id) ==
  /\ id \in DOMAIN metrics.flushes
  /\ metrics.flushes[id].pc = "arm"
  /\ metrics' = [metrics EXCEPT
                   !.alarmAt = IF @ = None THEN Some(now + HourMs) ELSE @,
                   !.flushes = IF metrics.flushes[id].fromAlarm
                               THEN [@ EXCEPT ![id].pc = "sweep"]
                               ELSE MapDel(@, id)]
  /\ last' = NoExchange
  /\ UNCHANGED <<now, config, metricsBound, registryVars, keyVars, thrown,
                 inFlight, trackLog>>

\* alarm() of the metrics partition starts: the runtime has cleared the
\* alarm that fired, and the handler calls flushCounts.
MetricsAlarm ==
  /\ metrics.alarmAt # None
  /\ now >= Val(metrics.alarmAt)
  /\ AlarmFlush \notin DOMAIN metrics.flushes
  /\ metrics' = flushCountsBegin([metrics EXCEPT !.alarmAt = None],
                                 AlarmFlush, TRUE)
  /\ last' = NoExchange
  /\ UNCHANGED <<now, config, metricsBound, registryVars, keyVars, thrown,
                 inFlight, trackLog>>

\* alarm() after its flush: delete the buckets older than 24 hours and the
\* cleanup snapshots not reported for 10 minutes, and set the next alarm.
MetricsSweep ==
  /\ AlarmFlush \in DOMAIN metrics.flushes
  /\ metrics.flushes[AlarmFlush].pc = "sweep"
  /\ LET cutoff == now - BucketRetentionMs
         staleThreshold == now - StaleSnapshotMs
         kept == { k \in DOMAIN metrics.counts : ~(HourStart(k[2]) < cutoff) }
         fresh == { d \in DOMAIN cleanupSnap :
                      ~(cleanupSnap[d].updatedAt < staleThreshold) }
     IN /\ metrics' = [metrics EXCEPT
                         !.counts = [k \in kept |-> @[k]],
                         !.alarmAt = Some(now + HourMs),
                         !.flushes = MapDel(@, AlarmFlush)]
        /\ cleanupSnap' = [d \in fresh |-> cleanupSnap[d]]
  /\ last' = NoExchange
  /\ UNCHANGED <<now, config, metricsBound, colonies, agents, colonyCache,
                 agentCache, alarmAt, live, lastReg, firstPubkey, keyVars,
                 thrown, inFlight, trackLog>>

\* Time passes in the metrics partition: up to the moment a pending timer of
\* scheduleFlush is due, or by ElapseMs.
ElapseToTimer ==
  /\ \E id \in DOMAIN metrics.flushes :
       /\ metrics.flushes[id].pc = "delay"
       /\ metrics.flushes[id].due > now
  /\ now' = now + FlushDelayMs
  /\ last' = NoExchange
  /\ UNCHANGED <<config, metricsBound, registryVars, keyVars, thrown,
                 inFlight, metricsVars>>

\* Time passes up to the moment the alarm of the metrics partition is due,
\* within the time that the model covers.
ElapseToAlarm ==
  /\ metrics.alarmAt # None
  /\ Val(metrics.alarmAt) > now
  /\ Val(metrics.alarmAt) <= StartMs + MaxElapses * ElapseMs
                               + MaxTimerTracks * FlushDelayMs
  /\ now' = Val(metrics.alarmAt)
  /\ last' = NoExchange
  /\ UNCHANGED <<config, metricsBound, registryVars, keyVars, thrown,
                 inFlight, metricsVars>>

ElapseUpTo(maxElapses) ==
  /\ now + ElapseMs <= StartMs + maxElapses * ElapseMs
                         + MaxTracks * FlushDelayMs
  /\ now' = now + ElapseMs
  /\ last' = NoExchange
  /\ UNCHANGED <<config, metricsBound, registryVars, keyVars, thrown,
                 inFlight, metricsVars>>

Elapse == ElapseUpTo(MaxElapses)

\* POST /report of the metrics partition, from the partition doId.
Report(doId, body) ==
  /\ cleanupSnap' = handleReport(cleanupSnap, doId, body, now)
  /\ last' = [rpc |-> "Report", status |-> 200, body |-> [ok |-> TRUE]]
  /\ UNCHANGED <<now, config, metricsBound, colonies, agents, colonyCache,
                 agentCache, alarmAt, live, lastReg, firstPubkey, keyVars,
                 thrown, inFlight, metricsVars>>

\* handleStats without the test of the hour: every stored bucket is summed.
handleStatsEveryBucket(storage, at) ==
  LET operations == { k[1] : k \in DOMAIN storage.count }
  IN [operationsLastHour |->
        [operation \in operations |->
           SumCounts(storage.count,
                     { k \in DOMAIN storage.count : k[1] = operation })],
      timestamp |-> DateToISOString(at)]

\* handleStats: for every operation the sum of the stored count: buckets
\* whose hour starts at now - 1h or later, and the time. The cleanup: keys
\* that handleReport wrote are not read.
handleStats(storage, at) ==
  LET oneHourAgo == at - HourMs
      recent == { k \in DOMAIN storage.count : HourStart(k[2]) >= oneHourAgo }
      operations == { k[1] : k \in recent }
  IN [operationsLastHour |->
        [operation \in operations |->
           SumCounts(storage.count, { k \in recent : k[1] = operation })],
      timestamp |-> DateToISOString(at)]

\* GET /stats of the metrics partition.
Stats ==
  /\ metricsBound
  /\ last' = [rpc |-> "Stats", status |-> 200,
              body |-> handleStats([count |-> metrics.counts,
                                    cleanup |-> cleanupSnap], now)]
  /\ UNCHANGED <<now, config, metricsBound, registryVars, keyVars, thrown,
                 inFlight, metricsVars>>

InitMetrics ==
  /\ InitRegistry
  /\ InitKeys
  /\ config \in TimedConfigs
  /\ metricsBound = TRUE
  /\ thrown = None

NextMetrics ==
  \/ \E request \in TimedColonyRequests : RegisterColony(request, None)
  \/ \E delivered \in BOOLEAN : Alarm("m1", delivered)
  \/ Stats
  \/ Tick(MaxTicks)

SpecMetrics == InitMetrics /\ [][NextMetrics]_vars

----------------------------------------------------------------------------
(* C17: the cleanup counter in /stats.                                     *)

\* A colony of mesh m1 was registered and its row is gone: only the cleanup
\* deletes rows. The report of that cleanup reached the metrics partition.
ColonyCleanedUp ==
  /\ <<"colony", "m1", "m1">> \in DOMAIN lastReg
  /\ "m1" \notin DOMAIN colonies["m1"]
  /\ "m1" \in DOMAIN cleanupSnap
  /\ cleanupSnap["m1"].expiredColonies >= 1

\* C17: once a colony registration has expired and a cleanup has deleted it,
\* /stats of the metrics partition shows that cleanup's counter with
\* expiredColonies >= 1.
C17_StatsShowsCleanupCounter ==
  (last.rpc = "Stats" /\ ColonyCleanedUp) =>
    /\ "cleanup" \in DOMAIN last.body
    /\ \E origin \in DOMAIN last.body.cleanup :
         last.body.cleanup[origin].expiredColonies >= 1


----------------------------------------------------------------------------
(* C18: isPrivateIP against the address ranges.                            *)

Dotted(a, b, c, d) == a \o <<".">> \o b \o <<".">> \o c \o <<".">> \o d

\* IPv4 addresses inside and just outside the private and loopback ranges.
IPv4Addresses ==
  { Dotted(a, b, c, <<"1">>) :
      a \in { <<"1", "0">>, <<"1", "2", "7">>, <<"1", "7", "2">>,
              <<"1", "9", "2">>, <<"8">>, <<"1", "1">>, <<"1">>,
              <<"1", "0", "0">> },
      b \in { <<"0">>, <<"1", "5">>, <<"1", "6">>, <<"3", "1">>,
              <<"3", "2">>, <<"1", "6", "8">> },
      c \in { <<"0">>, <<"2", "5", "5">> } }

\* IPv6 addresses in several textual forms.
IPv6Addresses ==
  { <<":", ":", "1">>,
    <<"0", ":", "0", ":", "0", ":", "0", ":", "0", ":", "0", ":", "0", ":", "1">>,
    <<"f", "c", "0", "0", ":", ":", "1">>,
    <<"F", "C", "0", "0", ":", ":", "1">>,
    IP_fd00_1,
    IP_FD00_1,
    <<"f", "d", "0", ":", ":", "1">>,
    <<"f", "e", "8", "0", ":", ":", "1">>,
    <<"2", "0", "0", "1", ":", "d", "b", "8", ":", ":", "1">>,
    <<":", ":", "2">> }

\* isPrivateIP applied to an address.
Classify(ip) ==
  /\ last' = [rpc |-> "isPrivateIP", ip |-> ip, result |-> isPrivateIP(ip)]
  /\ UNCHANGED <<now, config, metricsBound, registryVars, keyVars, thrown,
                 inFlight, metricsVars>>

NextPrivate == \E ip \in IPv4Addresses \cup IPv6Addresses : Classify(ip)

SpecPrivate == Init /\ [][NextPrivate]_vars

\* C18: isPrivateIP is true for every address of 10.0.0.0/8, 172.16.0.0/12,
\* 192.168.0.0/16, 127.0.0.0/8, ::1 and fc00::/7 in whatever text it is
\* written, and false for every other address.
C18_PrivateRanges ==
  last.rpc = "isPrivateIP" => last.result = InPrivateRange(last.ip)


----------------------------------------------------------------------------
(* C19: the envelope of error responses (checked under SpecGateway).       *)

TableCodes == {StatusTable[i][1] : i \in 1..Len(StatusTable)}

\* C19: every error response to a POST of an RPC is the JSON envelope
\* {code, message} with a code string of the table, whatever made the
\* request fail.
C19_ErrorEnvelope ==
  (last.rpc # "none" /\ last.status # 200) =>
    /\ DOMAIN last.body = {"code", "message"}
    /\ last.body.code \in TableCodes


----------------------------------------------------------------------------
(* Storage failures inside a partition (registry.ts ColonyRegistry.fetch). *)

\* A RegisterColony or LookupColony whose this.sql.exec throws: the handler
\* has passed validation and, in a lookup, missed the cache; the statement
\* writes nothing; the exception is caught by the partition's fetch and
\* relayed by the gateway's handler.
StorageFailure(rpc, request) ==
  LET p == idFromName(request.meshId)
      key == Val(request.meshId)
  IN /\ p \in PartitionNames
     /\ TruthyStr(request.meshId)
     /\ IF rpc = "RegisterColony"
        THEN RegistryRegisterColony(p, WithObservedIP(request, None)).throws = None
        ELSE CacheHit(colonyCache[p], key) = None
     /\ Enter(p)
     /\ last' = [rpc |-> "StorageFailure", during |-> rpc, partition |-> p,
                 status |-> RelayedError(PlainError("SQLITE_FULL")).status,
                 body |-> RelayedError(PlainError("SQLITE_FULL")).body]
     /\ UNCHANGED <<now, config, metricsBound, colonies, agents, colonyCache,
                    agentCache, cleanupSnap, lastReg, firstPubkey, keyVars,
                    thrown, inFlight, metricsVars>>

NextStorage ==
  \/ \E request \in TimedColonyRequests : RegisterColony(request, None)
  \/ LookupColony([meshId |-> Some("m1")])
  \/ \E request \in TimedColonyRequests :
       StorageFailure("RegisterColony", request)
  \/ StorageFailure("LookupColony", [meshId |-> Some("m1")])
  \/ Tick(MaxTicks)

SpecStorage == Init /\ [][NextStorage]_vars

----------------------------------------------------------------------------
(* C20: what the client sees of a storage failure.                         *)

\* C20: when a storage operation of a partition fails during a register or
\* a lookup, the client receives code internal with HTTP 500, and the
\* colonies and agents tables stay as they were.
C20_StorageFailureIsInternal ==
  [][ last'.rpc = "StorageFailure" =>
        /\ last'.status = 500
        /\ last'.body.code = "internal"
        /\ UNCHANGED <<colonies, agents>> ]_vars


----------------------------------------------------------------------------
(* C21: token requests without a usable signing key (under SpecToken).     *)

\* DISCOVERY_SIGNING_KEY parses and its privateKey decodes to 64 bytes.
UsableSigningKey ==
  /\ TruthyVar(signingKeyEnv.DISCOVERY_SIGNING_KEY)
  /\ Val(signingKeyEnv.DISCOVERY_SIGNING_KEY).kind = "key"
  /\ Val(signingKeyEnv.DISCOVERY_SIGNING_KEY).bytes = 64

\* C21: a CreateBootstrapToken request with reefId, colonyId, agentId and
\* intent present returns no token and fails with internal whenever
\* DISCOVERY_SIGNING_KEY is absent, does not parse, or holds a privateKey of
\* another length than 64 bytes, a bare 32-byte seed included.
C21_NoTokenWithoutUsableKey ==
  ( /\ last.rpc = "CreateBootstrapToken"
    /\ last.request = FullTokenRequest
    /\ ~UsableSigningKey ) =>
      /\ last.status = 500
      /\ last.body.code = "internal"
      /\ "jwt" \notin DOMAIN last.body

\* The bare seed is refused.
C21_Witness ==
  /\ last.rpc = "CreateBootstrapToken"
  /\ last.request = FullTokenRequest
  /\ signingKeyEnv.DISCOVERY_SIGNING_KEY
       = Some(SigningKeyText("key-1", "seed-1", 32))
  /\ last.status = 500
  /\ last.body.code = "internal"


----------------------------------------------------------------------------
(* Two meshes side by side.                                                *)

MeshNames == {"m1", "m2"}

\* The colony of mesh m1 and an agent of mesh m2.
MeshColonyRequests ==
  { ColonyRequest(Some("m1"), Some("pkA"), Some(<<"1.2.3.4:51820">>)) }

MeshAgentRequests ==
  { AgentRequest(Some("a1"), Some("m2"), Some("pkX"), Some(<<"1.2.3.4:7000">>)) }

NextMeshes ==
  \/ \E request \in MeshColonyRequests : RegisterColony(request, None)
  \/ LookupColony([meshId |-> Some("m1")])
  \/ \E request \in MeshAgentRequests : RegisterAgent(request, None)
  \/ \E m \in MeshNames : Alarm(m, TRUE)
  \/ Tick(MeshTicks)

SpecMeshes == InitMetrics /\ [][NextMeshes]_vars

----------------------------------------------------------------------------
(* C22: partition isolation.                                               *)

\* The partitions whose tables, read caches or pending alarm the step
\* changes.
PartitionsChanged ==
  { q \in PartitionNames :
      \/ colonies'[q] # colonies[q]
      \/ agents'[q] # agents[q]
      \/ colonyCache'[q] # colonyCache[q]
      \/ agentCache'[q] # agentCache[q]
      \/ alarmAt'[q] # alarmAt[q] }

\* C22: a register, lookup or cleanup tick changes the tables, the read
\* cache and the pending alarm of one partition at most, and an RPC for mesh
\* A those of the partition of A only; what a cleanup tick writes elsewhere
\* is its report in the metrics partition.
C22_PartitionIsolation ==
  [][ /\ Cardinality(PartitionsChanged) <= 1
      /\ last'.rpc \in {"RegisterColony", "LookupColony", "RegisterAgent",
                        "LookupAgent"} =>
           PartitionsChanged \subseteq {Val(last'.request.meshId)} ]_vars

\* An agent of mesh m2 registers while the partition of m1 holds a row, a cache entry
\* and a pending alarm.
C22_Witness ==
  /\ last.rpc = "RegisterAgent"
  /\ last.request.meshId = Some("m2")
  /\ last.status = 200
  /\ "m1" \in DOMAIN colonies["m1"]
  /\ "m1" \in DOMAIN colonyCache["m1"]
  /\ alarmAt["m1"] # None
  /\ "a1" \in DOMAIN agents["m2"]


----------------------------------------------------------------------------
(* Routing by mesh id.                                                     *)

\* Registrations and lookups that name either mesh, no mesh or the empty
\* mesh id.
RoutedMeshIds == {None, Some(""), Some("m1"), Some("m2")}

RoutedColonyRequests ==
  { ColonyRequest(m, Some("pkA"), Some(<<"1.2.3.4:51820">>)) :
      m \in RoutedMeshIds }

RoutedAgentRequests ==
  { AgentRequest(Some(a), m, Some("pkX"), Some(<<"1.2.3.4:7000">>)) :
      a \in {"a1", "a2"}, m \in RoutedMeshIds }

NextRouting ==
  \/ \E request \in RoutedColonyRequests : RegisterColony(request, None)
  \/ \E request \in RoutedAgentRequests : RegisterAgent(request, None)
  \/ \E m \in {Some("m1"), Some("m2")} :
       LookupAgent([agentId |-> Some("a1"), meshId |-> m])

SpecRouting == InitFields /\ [][NextRouting]_vars

----------------------------------------------------------------------------
(* C23: rows live in the partition of their mesh.                          *)

\* C23: every colony row and every agent row stored in the partition named m
\* has mesh_id = m, so a partition holds one colony row at most, and a
\* LookupAgent for mesh m only returns an agent whose meshId is m.
C23_RowsBelongToPartition ==
  /\ \A p \in PartitionNames :
       /\ \A k \in DOMAIN colonies[p] : colonies[p][k].mesh_id = p
       /\ \A k \in DOMAIN agents[p] : agents[p][k].mesh_id = p
       /\ Cardinality(DOMAIN colonies[p]) <= 1
  /\ (last.rpc = "LookupAgent" /\ last.status = 200) =>
       last.body.meshId = Val(last.request.meshId)

\* Agent a1 is registered in both meshes and looked up in m2.
C23_Witness ==
  /\ "a1" \in DOMAIN agents["m1"]
  /\ "a1" \in DOMAIN agents["m2"]
  /\ "m1" \in DOMAIN colonies["m1"]
  /\ "m2" \in DOMAIN colonies["m2"]
  /\ last.rpc = "LookupAgent"
  /\ last.status = 200
  /\ last.body.meshId = "m2"


----------------------------------------------------------------------------
(* Agents registered again under another key.                              *)

\* Agent a1 of mesh m1 with either of two pubkeys, and without one.
RekeyedAgentRequests ==
  { AgentRequest(Some("a1"), Some("m1"), k, Some(<<e>>)) :
      k \in {None, Some("pkX"), Some("pkY")},
      e \in {"1.2.3.4:7000", "5.6.7.8:7000"} }

NextAgents ==
  \/ \E request \in RekeyedAgentRequests : RegisterAgent(request, None)
  \/ LookupAgent([agentId |-> Some("a1"), meshId |-> Some("m1")])
  \/ Alarm("m1", TRUE)
  \/ Tick(MaxTicks)

SpecAgents == Init /\ [][NextAgents]_vars

----------------------------------------------------------------------------
(* C24: RegisterAgent has no split-brain check.                            *)

ValidAgentRequest(request) ==
  /\ TruthyStr(request.agentId)
  /\ TruthyStr(request.meshId)
  /\ TruthyStr(request.pubkey)
  /\ \/ request.endpoints # None /\ Val(request.endpoints) # <<>>
     \/ request.observedEndpoint # None

\* C24: every valid RegisterAgent succeeds and leaves the stored row of its
\* agent_id holding the request's pubkey and endpoints, whatever pubkey the
\* row held before; no RegisterAgent fails with already_exists.
C24_AgentsUpsertUnconditionally ==
  last.rpc = "RegisterAgent" =>
    /\ last.status # 409
    /\ ValidAgentRequest(last.request) =>
         LET row == agents[last.partition][Val(last.request.agentId)]
         IN /\ last.status = 200
            /\ row.pubkey = Val(last.request.pubkey)
            /\ row.endpoints = JSONstringify(Val(last.request.endpoints))

\* A registration replaces an unexpired row that holds another pubkey.
C24_Witness ==
  /\ last.rpc = "RegisterAgent"
  /\ last.status = 200
  /\ last.prior # None
  /\ Val(last.prior).pubkey = "pkX"
  /\ Val(last.prior).expires_at > now
  /\ last.request.pubkey = Some("pkY")
  /\ agents["m1"]["a1"].pubkey = "pkY"


----------------------------------------------------------------------------
(* Operation counters of the metrics partition.                            *)

NextCounters ==
  \/ \E operation \in TrackedOperations : Track(operation)
  \/ \E id \in 1..MaxFlushes : FlushTimer(id)
  \/ \E id \in 0..MaxFlushes : FlushRead(id)
  \/ \E id \in 0..MaxFlushes : FlushWrite(id)
  \/ \E id \in 0..MaxFlushes : FlushArm(id)
  \/ MetricsAlarm
  \/ MetricsSweep
  \/ ElapseToTimer
  \/ Elapse
  \/ Stats

SpecCounters == InitMetrics /\ [][NextCounters]_vars

\* The track calls made for an operation in an hour bucket, and those made
\* at an instant or later.
TrackedInHour(operation, hour) ==
  SumCounts(trackLog, { k \in DOMAIN trackLog :
                          k[1] = operation /\ HourOf(k[2]) = hour })

TrackedSince(operation, at) ==
  SumCounts(trackLog, { k \in DOMAIN trackLog :
                          k[1] = operation /\ k[2] >= at })

\* No count waits in memory and no flush is under way.
AllFlushed ==
  /\ DOMAIN metrics.pendingCounts = {}
  /\ DOMAIN metrics.flushes = {}

\* Every bucket of the storage holds the number of its track calls.
NothingLost ==
  \A operation \in TrackedOperations, hour \in 0..HourOf(now) :
    Count(metrics.counts, <<operation, hour>>) =
      TrackedInHour(operation, hour)

\* The count that /stats answered for an operation; an operation that the
\* response does not name has none.
Answered(operation) == Count(last.body.operationsLastHour, operation)

----------------------------------------------------------------------------
(* C25: the counts of the last hour in /stats.                             *)

\* C25 as stated: once everything tracked is flushed and stored, /stats
\* answers for every operation the number of its track calls of the last
\* hour.
C25_StatsCountsLastHour ==
  (last.rpc = "Stats" /\ AllFlushed /\ NothingLost) =>
    \A operation \in TrackedOperations :
      Answered(operation) = TrackedSince(operation, now - HourMs)

\* C25: /stats answers for every operation the sum of the stored counters of
\* the buckets whose hour starts at now - 1h or later, and names no other
\* operation; the count includes no operation older than an hour, so it is
\* at most the number of track calls of the last hour, and it leaves out the
\* calls of the last hour that fell into a bucket begun before now - 1h.
C25_StatsSumsRecentBuckets ==
  last.rpc = "Stats" =>
    /\ DOMAIN last.body.operationsLastHour \subseteq TrackedOperations
    /\ \A operation \in TrackedOperations :
         /\ Answered(operation) =
              SumCounts(metrics.counts,
                        { k \in DOMAIN metrics.counts :
                            /\ k[1] = operation
                            /\ k[2] * HourMs >= now - HourMs })
         /\ Answered(operation) <= TrackedSince(operation, now - HourMs)
         /\ (AllFlushed /\ NothingLost) =>
              Answered(operation) =
                TrackedSince(operation, (HourOf(now - 1) * HourMs))

\* /stats answers while the storage holds a bucket older than an hour next
\* to a recent one of the same operation.
C25_Witness ==
  /\ last.rpc = "Stats"
  /\ \E operation \in TrackedOperations :
       /\ <<operation, 0>> \in DOMAIN metrics.counts
       /\ HourStart(0) < now - HourMs
       /\ \E hour \in 1..HourOf(now) :
            /\ <<operation, hour>> \in DOMAIN metrics.counts
            /\ HourStart(hour) >= now - HourMs
       /\ Answered(operation) >= 1

----------------------------------------------------------------------------
(* C30: conservation of the counters.                                      *)

\* C30: whenever no count is pending and no flush is under way, the stored
\* counter of every (operation, hour) bucket equals the number of track
\* calls made for the bucket.
C30_CounterConservation == AllFlushed => NothingLost


----------------------------------------------------------------------------
(* The cleanup alarm, observed.                                            *)

\* One colony and one agent of mesh m1, registered, looked up and cleaned
\* up, the metrics partition being bound.
NextCleanup ==
  \/ RegisterColony(ColonyRequest(Some("m1"), Some("pkA"),
                                  Some(<<"1.2.3.4:51820">>)), None)
  \/ LookupColony([meshId |-> Some("m1")])
  \/ \E request \in TimedAgentRequests : RegisterAgent(request, None)
  \/ LookupAgent([agentId |-> Some("a1"), meshId |-> Some("m1")])
  \/ \E outcome \in ReportOutcomes : Cleanup("m1", outcome)
  \/ Tick(MeshTicks)

SpecCleanup == InitMetrics /\ [][NextCleanup]_vars

----------------------------------------------------------------------------
(* C26: the alarm re-arms itself whatever becomes of the report.           *)

\* C26: after every run of the cleanup alarm of a partition, whether the
\* report to the metrics partition was stored, answered with an error or
\* threw, the next alarm of the partition is set at now + cleanup_interval_ms
\* and no expired row is left in its tables.
C26_AlarmAlwaysReschedules ==
  last.rpc = "alarm" =>
    /\ alarmAt[last.partition] = Some(now + config.cleanupIntervalMs)
    /\ \A k \in DOMAIN colonies[last.partition] :
         colonies[last.partition][k].expires_at >= now
    /\ \A k \in DOMAIN agents[last.partition] :
         agents[last.partition][k].expires_at >= now

\* A cleanup deleted a colony row and its report threw.
C26_Witness ==
  /\ last.rpc = "alarm"
  /\ last.report = "throws"
  /\ last.expiredColonies = 1
  /\ <<"colony", "m1", "m1">> \in DOMAIN lastReg
  /\ "m1" \notin DOMAIN colonies["m1"]
  /\ "m1" \notin DOMAIN cleanupSnap
  /\ alarmAt["m1"] = Some(now + config.cleanupIntervalMs)

----------------------------------------------------------------------------
(* C27: what a cleanup tick deletes and reports.                           *)

\* C27: a cleanup tick of a partition deletes exactly the colony rows and
\* agent rows whose expires_at is before now and leaves the other rows as
\* they were; the expiredColonies and expiredAgents that it reports are the
\* numbers of rows it deleted, and a report that arrives is stored so.
C27_CleanupDeletesExactlyExpired ==
  [][ last'.rpc = "alarm" =>
        LET p == last'.partition
            keptColonies == { k \in DOMAIN colonies[p] :
                                colonies[p][k].expires_at >= now }
            keptAgents == { k \in DOMAIN agents[p] :
                              agents[p][k].expires_at >= now }
        IN /\ colonies'[p] = [k \in keptColonies |-> colonies[p][k]]
           /\ agents'[p] = [k \in keptAgents |-> agents[p][k]]
           /\ last'.expiredColonies =
                Cardinality(DOMAIN colonies[p] \ DOMAIN colonies'[p])
           /\ last'.expiredAgents =
                Cardinality(DOMAIN agents[p] \ DOMAIN agents'[p])
           /\ last'.report = "ok" =>
                /\ cleanupSnap'[p].expiredColonies = last'.expiredColonies
                /\ cleanupSnap'[p].expiredAgents = last'.expiredAgents ]_vars

\* A cleanup deleted the colony row and kept the agent row that expires at
\* this very moment.
C27_Witness ==
  /\ last.rpc = "alarm"
  /\ last.expiredColonies = 1
  /\ last.expiredAgents = 0
  /\ "m1" \notin DOMAIN colonies["m1"]
  /\ "a1" \in DOMAIN agents["m1"]
  /\ agents["m1"]["a1"].expires_at = now

----------------------------------------------------------------------------
(* C28: the read caches agree with the tables.                             *)

\* C28: every cache entry whose expiresAt is not before now belongs to a
\* stored, unexpired row and holds the response that a lookup builds from
\* that row; after a successful registration the cache has no entry for the
\* registered key; after a cleanup that deleted a row both caches of the
\* partition are empty.
C28_CacheCoherence ==
  /\ \A p \in PartitionNames :
       /\ \A k \in DOMAIN colonyCache[p] :
            colonyCache[p][k].expiresAt >= now =>
              /\ k \in DOMAIN colonies[p]
              /\ colonies[p][k].expires_at >= now
              /\ colonyCache[p][k].data = ColonyResponse(colonies[p][k])
       /\ \A k \in DOMAIN agentCache[p] :
            agentCache[p][k].expiresAt >= now =>
              /\ k \in DOMAIN agents[p]
              /\ agents[p][k].expires_at >= now
              /\ agentCache[p][k].data = AgentResponse(agents[p][k])
  /\ (last.rpc = "RegisterColony" /\ last.status = 200) =>
       Val(last.request.meshId) \notin DOMAIN colonyCache[last.partition]
  /\ (last.rpc = "RegisterAgent" /\ last.status = 200) =>
       Val(last.request.agentId) \notin DOMAIN agentCache[last.partition]
  /\ (last.rpc = "alarm"
        /\ (last.expiredColonies > 0 \/ last.expiredAgents > 0)) =>
       /\ DOMAIN colonyCache[last.partition] = {}
       /\ DOMAIN agentCache[last.partition] = {}

\* A lookup has cached the colony anew after a registration replaced the
\* row of a cached key.
C28_Witness ==
  /\ last.rpc = "LookupColony"
  /\ last.status = 200
  /\ <<"colony", "m1", "m1">> \in DOMAIN lastReg
  /\ lastReg[<<"colony", "m1", "m1">>].overCache
  /\ "m1" \in DOMAIN colonyCache["m1"]
  /\ colonyCache["m1"]["m1"].expiresAt >= now
  /\ colonyCache["m1"]["m1"].data.lastSeen > FloorSeconds(StartMs)


----------------------------------------------------------------------------
(* Objects constructed, evicted and constructed again.                     *)

NextConstruct ==
  \/ RegisterColony(ColonyRequest(Some("m1"), Some("pkA"),
                                  Some(<<"1.2.3.4:51820">>)), None)
  \/ LookupColony([meshId |-> Some("m1")])
  \/ Construct("m1")
  \/ Evict("m1")
  \/ Cleanup("m1", "ok")
  \/ Tick(MaxTicks)

SpecConstruct == Init /\ [][NextConstruct]_vars

----------------------------------------------------------------------------
(* C29: the constructor and the cleanup alarm.                             *)

\* C29: a step that constructs the object of a partition, for a request or
\* ahead of one, sets the alarm at now + cleanup_interval_ms if and only if
\* none is pending and leaves a pending alarm at its deadline; and when a
\* request has been served by a partition, the partition's object is
\* constructed and its alarm is set.
C29_ConstructorSchedulesAlarm ==
  [][ \A p \in PartitionNames :
        /\ (p \notin live /\ p \in live' /\ last'.rpc # "alarm") =>
             alarmAt'[p] = IF alarmAt[p] = None
                           THEN Some(now + config.cleanupIntervalMs)
                           ELSE alarmAt[p]
        /\ (/\ last'.rpc \in {"RegisterColony", "LookupColony", "RegisterAgent"}
            /\ last'.partition = p) =>
             /\ p \in live'
             /\ alarmAt'[p] # None ]_vars

\* The object of m1 is constructed again while its alarm is pending and
\* overdue: the alarm keeps its deadline.
C29_Witness ==
  /\ last.rpc = "construct"
  /\ last.partition = "m1"
  /\ last.pending # None
  /\ alarmAt["m1"] = last.pending
  /\ Val(alarmAt["m1"]) < now
  /\ "m1" \in live


----------------------------------------------------------------------------
(* The timers of the delayed flushes.                                      *)

\* Time passes by `ms` under a runtime that runs every timer and the alarm
\* at the time they are set for, and in which a run of flushCounts takes no
\* time: no flush is under way, and no timer and no alarm is due before the
\* time is over.
OnTime(ms) ==
  /\ \A id \in DOMAIN metrics.flushes :
       /\ metrics.flushes[id].pc = "delay"
       /\ now + ms <= metrics.flushes[id].due
  /\ IF metrics.alarmAt = None THEN TRUE
     ELSE now + ms <= Val(metrics.alarmAt)

\* Track calls of one operation, the delayed flushes and the hourly alarm,
\* all on time.
NextTimers ==
  \/ TrackUpTo("RegisterColony", MaxTimerTracks)
  \/ \E id \in 1..MaxFlushes : FlushTimer(id)
  \/ \E id \in 0..MaxFlushes : FlushRead(id)
  \/ \E id \in 0..MaxFlushes : FlushWrite(id)
  \/ \E id \in 0..MaxFlushes : FlushArm(id)
  \/ MetricsAlarm
  \/ MetricsSweep
  \/ OnTime(FlushDelayMs) /\ ElapseToTimer
  \/ OnTime(ElapseMs) /\ Elapse
  \/ /\ metrics.alarmAt # None
     /\ OnTime(Val(metrics.alarmAt) - now)
     /\ ElapseToAlarm

SpecTimers == InitMetrics /\ [][NextTimers]_vars

\* The delayed flushes whose timer has not run out.
DelayedFlushes ==
  { id \in DOMAIN metrics.flushes : metrics.flushes[id].pc = "delay" }

----------------------------------------------------------------------------
(* C31: one delayed flush at a time.                                       *)

\* C31: at any time at most one delayed flush of the metrics partition is
\* outstanding.
C31_OneDelayedFlush == Cardinality(DelayedFlushes) <= 1


----------------------------------------------------------------------------
(* C32: the window of under-reporting.                                     *)

\* The track calls made for a bucket up to an instant.
TrackedInHourUpTo(operation, hour, at) ==
  SumCounts(trackLog, { k \in DOMAIN trackLog :
                          /\ k[1] = operation
                          /\ HourOf(k[2]) = hour
                          /\ k[2] <= at })

\* Whatever is due at this moment has run: no flush is under way, and no
\* timer and no alarm is due.
Settled ==
  /\ \A id \in DOMAIN metrics.flushes :
       /\ metrics.flushes[id].pc = "delay"
       /\ metrics.flushes[id].due > now
  /\ IF metrics.alarmAt = None THEN TRUE ELSE Val(metrics.alarmAt) > now

\* C32: timers and the alarm being run on time, once whatever is due at a
\* moment has run, the stored counter of every bucket holds every track call
\* made for the bucket 10 s ago or earlier.
C32_BoundedUnderReporting ==
  Settled =>
    \A operation \in TrackedOperations, hour \in 0..HourOf(now) :
      Count(metrics.counts, <<operation, hour>>) >=
        TrackedInHourUpTo(operation, hour, now - FlushDelayMs)


----------------------------------------------------------------------------
(* The hourly alarm of the metrics partition.                              *)

\* Reports of the partition m1, track calls, the delayed flushes and the
\* hourly alarm, all on time.
NextSweep ==
  \/ Report("m1", [expiredColonies |-> 1, expiredAgents |-> 0])
  \/ TrackUpTo("RegisterColony", MaxTracks)
  \/ \E id \in 1..MaxFlushes : FlushTimer(id)
  \/ \E id \in 0..MaxFlushes : FlushRead(id)
  \/ \E id \in 0..MaxFlushes : FlushWrite(id)
  \/ \E id \in 0..MaxFlushes : FlushArm(id)
  \/ MetricsAlarm
  \/ MetricsSweep
  \/ OnTime(FlushDelayMs) /\ ElapseToTimer
  \/ OnTime(ElapseMs) /\ ElapseUpTo(MaxSweepElapses)
  \/ /\ metrics.alarmAt # None
     /\ OnTime(Val(metrics.alarmAt) - now)
     /\ ElapseToAlarm

SpecSweep == InitMetrics /\ [][NextSweep]_vars

----------------------------------------------------------------------------
(* C33: the hourly alarm deletes what is stale.                            *)

\* C33: the alarm running every hour and on time, once whatever is due at a
\* moment has run, no cleanup snapshot of the storage is older than 10
\* minutes and the hour that the next run of the alarm may be away, whatever
\* reports and track calls were made.
C33_StaleSnapshotsDeleted ==
  Settled =>
    \A doId \in DOMAIN cleanupSnap :
      cleanupSnap[doId].updatedAt >= now - (StaleSnapshotMs + HourMs)


----------------------------------------------------------------------------
(* The Health RPC.                                                         *)

\* health.ts: const workerStartTime = Date.now(), taken when the module loads.
workerStartTime == StartMs

\* What the metrics partition's fetch gives handleHealth: the body of /stats,
\* the body of the 500 its catch answers, or a rejected promise.
StatsOutcomes == {"ok", "error", "throws"}

\* DiscoveryMetrics.fetch for /stats, as handleHealth sees it: the JSON text
\* of the answer, whose status handleHealth does not read.
StatsFetch(outcome, storage, at) ==
  IF outcome = "ok" THEN handleStats(storage, at)
  ELSE [error |-> "Internal error"]

\* stats.activeColonies: the property of the parsed body; undefined when the
\* body has no such property.
ActiveColonies(stats) ==
  IF "activeColonies" \in DOMAIN stats THEN Some(stats.activeColonies) ELSE None

\* handleHealth, the value of registeredColonies at the return: 0 unless the
\* binding is there and both awaits fulfil, and then stats.activeColonies.
RegisteredColonies(bound, outcome, stats) ==
  IF bound /\ outcome # "throws" THEN ActiveColonies(stats) ELSE Some(0)

\* handleHealth followed by createConnectResponse: JSON.stringify leaves out
\* a property whose value is undefined and bigIntReplacer writes the BigInt
\* uptimeSeconds as its decimal text.
handleHealth(bound, outcome, stats, at) ==
  LET registeredColonies == RegisteredColonies(bound, outcome, stats)
      present == {"status", "version", "uptimeSeconds"} \cup
                 (IF registeredColonies = None THEN {}
                  ELSE {"registeredColonies"})
  IN createConnectResponse(
       [property \in present |->
          CASE property = "status" -> "ok"
            [] property = "version" -> "0.0.0"
            [] property = "uptimeSeconds" ->
                 [decimalText |-> (at - workerStartTime) \div 1000]
            [] OTHER -> Val(registeredColonies)])

\* POST /coral.discovery.v1.DiscoveryService/Health
Health(outcome) ==
  LET response == handleHealth(metricsBound, outcome,
                               StatsFetch(outcome, [count |-> metrics.counts,
                                                    cleanup |-> cleanupSnap], now),
                               now)
  IN /\ last' = [rpc |-> "Health", outcome |-> outcome,
                 status |-> response.status, body |-> response.body]
     /\ UNCHANGED <<now, config, metricsBound, registryVars, keyVars, thrown,
                    inFlight, metricsVars>>

InitHealth ==
  /\ InitRegistry
  /\ InitKeys
  /\ config \in TimedConfigs
  /\ metricsBound \in BOOLEAN
  /\ thrown = None

NextHealth ==
  \/ \E request \in TimedColonyRequests : RegisterColony(request, None)
  \/ Track("RegisterColony")
  \/ \E outcome \in StatsOutcomes : Health(outcome)
  \/ Tick(MaxTicks)

SpecHealth == InitHealth /\ [][NextHealth]_vars

\* C34: every Health exchange answers HTTP 200 with status "ok" and a
\* numeric registeredColonies, which is 0 when the metrics partition is not
\* bound, cannot be reached or answers with an error.
C34_HealthAlwaysOk ==
  last.rpc = "Health" =>
    /\ last.status = 200
    /\ last.body["status"] = "ok"
    /\ "registeredColonies" \in DOMAIN last.body
    /\ last.body["registeredColonies"] \in Nat
    /\ (~metricsBound \/ last.outcome # "ok") => last.body["registeredColonies"] = 0

----------------------------------------------------------------------------
(* C35: a rejected registration changes nothing.                           *)

\* Registrations the handlers reject before anything is written: no pubkey,
\* no endpoint.
RejectedColonyRequests ==
  { ColonyRequest(Some("m1"), None, Some(<<"1.2.3.4:51820">>)) }

RejectedAgentRequests ==
  { AgentRequest(Some("a1"), Some("m1"), Some("pkX"), None) }

NextRejects ==
  \/ \E request \in TimedColonyRequests \cup RejectedColonyRequests :
       RegisterColony(request, None)
  \/ LookupColony([meshId |-> Some("m1")])
  \/ \E request \in TimedAgentRequests \cup RejectedAgentRequests :
       RegisterAgent(request, None)
  \/ LookupAgent([agentId |-> Some("a1"), meshId |-> Some("m1")])
  \/ Alarm("m1", TRUE)
  \/ Evict("m1")
  \/ Tick(MeshTicks)

SpecRejects == Init /\ [][NextRejects]_vars

\* The exchange is a registration answered invalid_argument or
\* already_exists.
RejectedRegistration(exchange) ==
  /\ exchange.rpc \in {"RegisterColony", "RegisterAgent"}
  /\ exchange.status \in {400, 409}
  /\ exchange.body.code \in {"invalid_argument", "already_exists"}

\* C35: a step that answers a RegisterColony or RegisterAgent with
\* invalid_argument or already_exists leaves the colonies and agents rows of
\* every partition, both read caches and every pending alarm as they were;
\* the expires_at of the row a split-brain attempt was aimed at is not
\* extended.
C35_RejectedRegisterChangesNothing ==
  [][ RejectedRegistration(last') =>
        /\ colonies' = colonies
        /\ agents' = agents
        /\ colonyCache' = colonyCache
        /\ agentCache' = agentCache
        /\ \A p \in PartitionNames :
             alarmAt[p] # None => alarmAt'[p] = alarmAt[p] ]_vars

\* A split-brain attempt has just been rejected on a partition that was
\* brought back into memory for it, at a time when an upsert would have
\* given the row a later expires_at, with the alarm pending; the row and
\* the alarm are as the first registration left them.
C35_Witness ==
  /\ last.rpc = "RegisterColony"
  /\ last.status = 409
  /\ last.body.code = "already_exists"
  /\ "m1" \in DOMAIN colonies["m1"]
  /\ colonies["m1"]["m1"].pubkey = "pkA"
  /\ colonies["m1"]["m1"].updated_at < now
  /\ alarmAt["m1"] # None
  /\ "a1" \in DOMAIN agentCache["m1"]

\* An agent registration without an endpoint has just been rejected while the
\* agent's row is stored and cached.
C35_WitnessAgent ==
  /\ last.rpc = "RegisterAgent"
  /\ last.status = 400
  /\ last.body.code = "invalid_argument"
  /\ "a1" \in DOMAIN agents["m1"]
  /\ "a1" \in DOMAIN agentCache["m1"]

----------------------------------------------------------------------------
(* C36: the pubkey of a stored colony row (checked under Spec).            *)

\* C36: in every step, a colony row that is stored before and after the step
\* has the same pubkey, and a valid RegisterColony whose pubkey differs from
\* the one of the stored row is answered already_exists (409) and leaves the
\* row as it was, whether the row has expired or not.
C36_StoredPubkeyNeverChanges ==
  [][ /\ \A p \in PartitionNames :
           \A meshId \in DOMAIN colonies[p] \cap DOMAIN colonies'[p] :
             colonies'[p][meshId].pubkey = colonies[p][meshId].pubkey
      /\ ( /\ last'.rpc = "RegisterColony"
           /\ ValidColonyRequest(last'.request)
           /\ last'.prior # None
           /\ Val(last'.prior).pubkey # Val(last'.request.pubkey) )
         => /\ last'.status = 409
            /\ last'.body.code = "already_exists"
            /\ colonies' = colonies ]_vars

\* pkB has just been rejected for m1 in the window in which the row of pkA
\* has expired, is still stored, and LookupColony for m1 answers not_found.
C36_Witness ==
  /\ last.rpc = "RegisterColony"
  /\ Val(last.request.pubkey) = "pkB"
  /\ last.status = 409
  /\ "m1" \in DOMAIN colonies["m1"]
  /\ colonies["m1"]["m1"].pubkey = "pkA"
  /\ colonies["m1"]["m1"].expires_at < now
  /\ LET out == RegistryLookupColony("m1", [meshId |-> Some("m1")])
     IN out.throws # None /\ Val(out.throws).code = Some(NotFound)

----------------------------------------------------------------------------
(* C37: an expired mesh_id is released by the cleanup.                     *)

\* Two pubkeys claim mesh m1 while the clock and the cleanup alarm run.
NextRelease ==
  \/ \E request \in TimedColonyRequests : RegisterColony(request, None)
  \/ LookupColony([meshId |-> Some("m1")])
  \/ Cleanup("m1", "ok")
  \/ Evict("m1")
  \/ Tick(MeshTicks)

SpecRelease == Init /\ [][NextRelease]_vars

\* C37: a partition that stores a colony row has a cleanup alarm pending; a
\* run of the alarm removes every row whose expires_at lies before the time
\* of the run; and a valid RegisterColony that finds no row for its mesh_id
\* succeeds whatever its pubkey and stores a row with that pubkey whose
\* created_at is the time of the call. So the row of a pubkey that stopped
\* registering is gone after the first alarm past its expiry, and another
\* pubkey then takes the mesh_id with a fresh created_at.
C37_ExpiredMeshIdIsReleased ==
  [][ /\ \A p \in PartitionNames :
           colonies'[p] # EmptyMap => alarmAt'[p] # None
      /\ last'.rpc = "alarm" =>
           \A meshId \in DOMAIN colonies[last'.partition] :
             colonies[last'.partition][meshId].expires_at < now
               => meshId \notin DOMAIN colonies'[last'.partition]
      /\ ( /\ last'.rpc = "RegisterColony"
           /\ ValidColonyRequest(last'.request)
           /\ last'.prior = None )
         => LET p == last'.partition
                meshId == Val(last'.request.meshId)
            IN /\ last'.status = 200
               /\ meshId \in DOMAIN colonies'[p]
               /\ colonies'[p][meshId].pubkey = Val(last'.request.pubkey)
               /\ colonies'[p][meshId].created_at = now ]_vars

\* pkA registered m1 first and stopped; its row expired and the alarm
\* removed it; pkB has just registered m1 and its row is created now.
C37_Witness ==
  /\ last.rpc = "RegisterColony"
  /\ last.status = 200
  /\ last.prior = None
  /\ "m1" \in DOMAIN firstPubkey
  /\ firstPubkey["m1"] = "pkA"
  /\ "m1" \in DOMAIN colonies["m1"]
  /\ colonies["m1"]["m1"].pubkey = "pkB"
  /\ colonies["m1"]["m1"].created_at = now
  /\ now > StartMs

----------------------------------------------------------------------------
(* C38: a re-registration replaces the record.                             *)

\* A colony of m1 registering with every optional field, with none, and with
\* a public port of 0.
FullColonyRequest ==
  [BaseColonyRequest EXCEPT !.meshIpv4 = Some("10.42.0.1"),
                            !.meshIpv6 = Some("fd42::1"),
                            !.connectPort = Some(9000),
                            !.publicPort = Some(443),
                            !.metadata = Some(RegionMetadata),
                            !.observedEndpoint =
                               Some(ObservedEndpoint("1.2.3.4", 51820, "udp")),
                            !.publicEndpoint =
                               Some(ObservedEndpoint("1.2.3.4", 443, "udp"))]

ReplacingColonyRequests ==
  { FullColonyRequest,
    BaseColonyRequest,
    [BaseColonyRequest EXCEPT !.pubkey = Some("pkA"),
                              !.endpoints = Some(<<"5.6.7.8:51820">>),
                              !.publicPort = Some(0)] }

\* An agent of m1 registering with metadata and an observed endpoint, and
\* with neither and another pubkey.
ReplacingAgentRequests ==
  { [AgentRequest(Some("a1"), Some("m1"), Some("pkX"), Some(<<"1.2.3.4:7000">>))
       EXCEPT !.metadata = Some(RegionMetadata),
              !.observedEndpoint = Some(ObservedEndpoint("1.2.3.4", 7000, "udp"))],
    AgentRequest(Some("a1"), Some("m1"), Some("pkY"), Some(<<"5.6.7.8:7000">>)) }

NextRecords ==
  \/ \E request \in ReplacingColonyRequests : RegisterColony(request, None)
  \/ \E request \in ReplacingAgentRequests : RegisterAgent(request, None)
  \/ Tick(MeshTicks)

SpecRecords == Init /\ [][NextRecords]_vars

\* The column that holds an optional object of the request as JSON text.
StoredJSON(o) == IF o = None THEN None ELSE Some(JSONstringify(Val(o)))

\* The last exchange is a successful registration over a stored row.
ReRegistered(rpc) ==
  last.rpc = rpc /\ last.status = 200 /\ last.prior # None

\* C38: after a successful re-registration the stored row has, in every
\* column but created_at, the value the new request gives: the request's
\* value where it gives one, nothing where it omits the field, the time of
\* the call in updated_at and that time plus the TTL in expires_at;
\* created_at is the one of the row that was replaced.
C38_ReRegistrationReplacesRecord ==
  /\ ReRegistered("RegisterColony") =>
       LET request == last.request
           row == colonies[last.partition][Val(request.meshId)]
       IN /\ row.mesh_id = Val(request.meshId)
          /\ row.pubkey = Val(request.pubkey)
          /\ row.endpoints = JSONstringify(RequestedEndpoints(request))
          /\ row.mesh_ipv4 = request.meshIpv4
          /\ row.mesh_ipv6 = request.meshIpv6
          /\ row.connect_port = request.connectPort
          /\ row.public_port = request.publicPort
          /\ row.metadata = StoredJSON(request.metadata)
          /\ row.observed_endpoint = StoredJSON(request.observedEndpoint)
          /\ row.public_endpoint = StoredJSON(request.publicEndpoint)
          /\ row.updated_at = now
          /\ row.expires_at = now + TTLMs
          /\ row.created_at = Val(last.prior).created_at
  /\ ReRegistered("RegisterAgent") =>
       LET request == last.request
           row == agents[last.partition][Val(request.agentId)]
       IN /\ row.agent_id = Val(request.agentId)
          /\ row.mesh_id = Val(request.meshId)
          /\ row.pubkey = Val(request.pubkey)
          /\ row.endpoints = JSONstringify(RequestedEndpoints(request))
          /\ row.metadata = StoredJSON(request.metadata)
          /\ row.observed_endpoint = StoredJSON(request.observedEndpoint)
          /\ row.updated_at = now
          /\ row.expires_at = now + TTLMs
          /\ row.created_at = Val(last.prior).created_at

\* The part of C38 about omitted fields: after a successful re-registration
\* every optional column whose field the new request omits is NULL, whatever
\* the replaced row held there.
OmittedFieldsCleared ==
  /\ ReRegistered("RegisterColony") =>
       LET request == last.request
           row == colonies[last.partition][Val(request.meshId)]
       IN /\ request.meshIpv4 = None => row.mesh_ipv4 = None
          /\ request.meshIpv6 = None => row.mesh_ipv6 = None
          /\ request.connectPort = None => row.connect_port = None
          /\ request.publicPort = None => row.public_port = None
          /\ request.metadata = None => row.metadata = None
          /\ request.observedEndpoint = None => row.observed_endpoint = None
          /\ request.publicEndpoint = None => row.public_endpoint = None
  /\ ReRegistered("RegisterAgent") =>
       LET request == last.request
           row == agents[last.partition][Val(request.agentId)]
       IN /\ request.metadata = None => row.metadata = None
          /\ request.observedEndpoint = None => row.observed_endpoint = None

\* A registration without optional fields has just replaced a row that had
\* them all.
OmittedOverFull ==
  /\ ReRegistered("RegisterColony")
  /\ last.request.metadata = None
  /\ Val(last.prior).metadata # None
  /\ Val(last.prior).public_port = Some(443)

====
